---- MODULE Spec2Model ----
(***************************************************************************)
(* Telemetry simulator: RingBuffer<T, Capacity> (src/ring_buffer.h) with   *)
(* one producer and one consumer thread, and the RaceEngine producer loop  *)
(* (src/race_engine.h) on top of it.                                       *)
(*                                                                         *)
(* std::mutex is the variable mutex_ (its owner); a condition variable is  *)
(* the set of threads asleep on it.  cv.wait(lock, pred) is the loop       *)
(* while (!pred()) wait(lock): the predicate is evaluated with the mutex   *)
(* held, wait(lock) releases the mutex and goes to sleep in one atomic     *)
(* step, and a woken thread re-acquires the mutex before it evaluates the  *)
(* predicate again.  shutdown_ is a std::atomic<bool>: it is read and      *)
(* written without the mutex, so a store may fall between any two steps of *)
(* a thread that holds the mutex.                                          *)
(***************************************************************************)
EXTENDS Integers, Sequences, FiniteSets, TLC

\* ---------------------------------------------------------------- bounds
\* Capacity template parameter of RingBuffer (1024 in the program).
Capacity == 3
\* Number of push calls the test producer makes.
MaxPush == 3
\* Number of pop / try_pop calls the test consumer makes.
MaxPop == 3
\* Number of shutdown() calls made in a run, over all threads.
MaxShutdown == 2
\* NUM_DRIVERS (20 in the program): the first NUM_DRIVERS rows of the roster.
NUM_DRIVERS == 2
\* TRACK_LENGTH in millimetres (5000 m in the program), scaled down so that a
\* lap takes a few ticks.
TRACK_LENGTH == 3000
\* Staggered start: grid slot i starts at -START_GAP * i millimetres (25 m in
\* the program), scaled down so that a pit stop can change the race order.
START_GAP == 50
\* TIRE_WEAR_BASE_RATE in 1e-4 of a full wear per second (0.00125 per second
\* in the program), scaled up so that a stint takes a few ticks and the cars
\* reach their pit thresholds in different ticks.
TIRE_WEAR_BASE_RATE == 105000
\* PIT_STOP_BASE_DURATION in milliseconds (2500 in the program), scaled down
\* so that a pit stay takes a few ticks.
PIT_STOP_BASE_DURATION == 40
\* Largest total_laps and number of seeds a run is configured with.
MaxLaps == 2
NumSeeds == 2
\* No run of the bounded model lasts longer than this many ticks.
MaxTicks == 40
\* Largest distance (in millimetres) given to a car when the race order is
\* computed on distances chosen freely.
MaxOrderDistance == 9
\* Calls of write_state and of read_state made on the shared race state.
MaxWrites == 3
MaxReads == 3

\* ------------------------------------------------------ program constants
\* tick period in milliseconds: DT = 1 / SIMULATION_HZ
SIMULATION_HZ == 50
DT == 1000 \div SIMULATION_HZ
\* in 1e-2 km/h
BASE_SPEED_KMH == 20000
MIN_SPEED_KMH == 5000
FLAG_IN_PITS == 1
\* TelemetryUI: "invalid marker" driver id and redraw period
INVALID_DRIVER == 255
RENDER_EVERY == 10

\* ---------------------------------------------------------------- threads
Producer == "producer"
Consumer == "consumer"
External == "external"
Threads == {Producer, Consumer, External}

NoOwner == "free"
NoItem == 0

VARIABLES
    buffer_,        \* std::array<T, Capacity>
    head_,          \* write position
    tail_,          \* read position
    shutdown_,      \* std::atomic<bool>
    mutex_,         \* owner of the mutex, or NoOwner
    cv_not_empty_,  \* threads asleep in cv_not_empty_.wait
    cv_not_full_,   \* threads asleep in cv_not_full_.wait
    pc,             \* per thread: position in the code
    item,           \* per thread: argument of push / output of pop
    ret,            \* per thread: return value of the last queue call
    calls,          \* per thread: queue calls made so far (bounded clients)
    sdCalls,        \* shutdown() calls started so far
    sdDone,         \* shutdown() calls that have returned
    accepted,       \* history: values stored by push, in order
    popped,         \* history: values removed by pop / try_pop, in order
    pushTrue,       \* history: push calls that have returned true
    popFalse,       \* history: pop calls that have returned false
    atShutdown,     \* history: counters at the first shutdown_ store
    atCall,         \* history: queue state when the push in progress was called
    stop_flag_,     \* std::atomic<bool> shared by RaceEngine and TelemetryUI
    state_,         \* RaceEngine::state_ (RaceState)
    rng_,           \* RaceEngine::rng_
    total_laps_,    \* RaceEngine::total_laps_
    seed_,          \* history: the seed rng_ was constructed with
    tick_count_,    \* RaceEngine::tick_count_
    car_idx,        \* RaceEngine::run: loop variable i of the push loop
    latest_frames_, \* TelemetryUI::latest_frames_
    frame_counter_, \* TelemetryUI::frame_counter_
    renders,        \* history: snapshots rendered by TelemetryUI, in order
    run_exit,       \* history: why RaceEngine::run returned
    front_buffer_,  \* SharedRaceState::front_buffer_
    back_buffer_,   \* SharedRaceState::back_buffer_
    has_new_data_,  \* SharedRaceState::has_new_data_
    should_stop_,   \* SharedRaceState::should_stop_
    cv_,            \* threads asleep in SharedRaceState::cv_.wait
    written,        \* history: write_state calls that have stored their state
    returned        \* history: what each read_state returned, and when

qvars == <<buffer_, head_, tail_, shutdown_, mutex_, cv_not_empty_, cv_not_full_>>
tvars == <<pc, item, ret, calls, sdCalls, sdDone>>
hvars == <<accepted, popped, pushTrue, popFalse, atShutdown, atCall>>
evars == <<stop_flag_, state_, rng_, total_laps_, seed_, tick_count_, car_idx,
           latest_frames_, frame_counter_, renders, run_exit>>
svars == <<front_buffer_, back_buffer_, has_new_data_, should_stop_, cv_,
           written, returned>>
vars == <<qvars, tvars, hvars, evars, svars>>

\* The two snapshot histories carry a field "on": a specification whose
\* properties never read them starts with on = FALSE and they stay as they are.
NotYet == [on |-> TRUE, set |-> FALSE, pushTrue |-> 0, popped |-> 0,
           accepted |-> 0]
NoCall == [on |-> TRUE, sdDone |-> 0, head |-> 0, buffer |-> <<>>,
           accepted |-> 0]

\* ---------------------------------------------------------------- helpers
\* (i + 1) % Capacity : cursor advance in push, pop and try_pop.
advance(i) == (i + 1) % Capacity

\* is_full_unsafe without the modulo: wrong when head_ is in the last slot
is_full_no_wrap == head_ + 1 = tail_

\* RingBuffer::is_full_unsafe
is_full_unsafe == advance(head_) = tail_

\* RingBuffer::size, without the lock
size_unsafe == IF head_ >= tail_ THEN head_ - tail_ ELSE Capacity - tail_ + head_

\* predicate of cv_not_full_.wait in push
push_pred == ~is_full_unsafe \/ shutdown_

\* pop that does not wait for a record
pop_pred_no_wait == TRUE

\* predicate of cv_not_empty_.wait in pop
pop_pred == head_ # tail_ \/ shutdown_

\* push that does not look at the shutdown flag after the wait
push_ignores_shutdown == FALSE

\* line 47: the condition under which push returns false
push_shutdown_check == shutdown_

\* pop that gives up as soon as the queue is shut down
pop_no_data_on_shutdown == shutdown_

\* line 73: the condition under which pop returns false
pop_no_data == shutdown_ /\ head_ = tail_

\* the item stored in the slot of the read cursor
write_slot_at_tail(v) == [buffer_ EXCEPT ![tail_] = v]

\* line 51: buffer_[head_] = item
write_slot(v) == [buffer_ EXCEPT ![head_] = v]

\* pc of a thread woken from a condition variable
woken(t) == IF pc[t] = "push_blocked" THEN "push_woken" ELSE "pop_woken"

\* condition_variable::notify_one on the waiter set cv: relation between
\* the pc function before and after, and the waiter set after.
notify_one(cv, cvAfter, pcMid, pcAfter) ==
    IF cv = {} THEN cvAfter = cv /\ pcAfter = pcMid
    ELSE \E w \in cv : cvAfter = cv \ {w} /\ pcAfter = [pcMid EXCEPT ![w] = woken(w)]

\* condition_variable::notify_all
notify_all(cv, cvAfter, pcMid, pcAfter) ==
    /\ cvAfter = {}
    /\ pcAfter = [t \in Threads |-> IF t \in cv THEN woken(t) ELSE pcMid[t]]

\* ------------------------------------------------------------ RaceEngine
\* Fixed point: profile coefficients in 1/100, speed in 1e-2 km/h, distance
\* in millimetres, tire wear and pit threshold in 1e-4, times in
\* milliseconds.  Every intermediate value stays below 2^31.
Drivers == 0..(NUM_DRIVERS - 1)

\* initialize_profiles: {aggression, consistency, tire_management, risk_tolerance}
driver_profiles == <<
    <<85, 97, 90, 75>>, <<78, 82, 75, 68>>, <<92, 95, 87, 85>>, <<76, 88, 82, 62>>,
    <<84, 94, 88, 72>>, <<72, 91, 86, 65>>, <<88, 91, 84, 78>>, <<80, 93, 89, 70>>,
    <<86, 89, 83, 74>>, <<74, 85, 80, 66>>, <<89, 84, 79, 82>>, <<81, 86, 81, 71>>,
    <<87, 79, 76, 80>>, <<83, 82, 78, 75>>, <<77, 83, 82, 68>>, <<75, 81, 80, 67>>,
    <<82, 80, 77, 76>>, <<79, 78, 75, 73>>, <<80, 77, 74, 77>>, <<76, 76, 73, 72>> >>

\* initialize_profiles: {engine_power, aero_efficiency, cooling_efficiency, reliability}
team_profiles == <<
    <<95, 95, 92, 94>>, <<93, 92, 90, 88>>, <<91, 93, 91, 92>>, <<94, 88, 89, 93>>,
    <<87, 86, 87, 88>>, <<84, 85, 83, 82>>, <<83, 84, 85, 86>>, <<80, 81, 82, 84>>,
    <<78, 79, 81, 85>>, <<76, 77, 80, 83>> >>

aggression(i) == driver_profiles[i + 1][1]
consistency(i) == driver_profiles[i + 1][2]
tire_management(i) == driver_profiles[i + 1][3]
risk_tolerance(i) == driver_profiles[i + 1][4]
\* car_profiles[i] = team_profiles[i / 2]
engine_power(i) == team_profiles[(i \div 2) + 1][1]
reliability(i) == team_profiles[(i \div 2) + 1][4]

clamp(x, lo, hi) == IF x < lo THEN lo ELSE IF x > hi THEN hi ELSE x
min_uncapped(a, b) == a
min(a, b) == IF a < b THEN a ELSE b
max(a, b) == IF a > b THEN a ELSE b

\* initialize_race: 0.65 + tire_management * 0.25 + (risk_tolerance - 0.5) * 0.15,
\* clamped to [0.6, 0.95]
pit_threshold(i) ==
    clamp(6500 + tire_management(i) * 25 + (risk_tolerance(i) - 50) * 15,
          6000, 9500)

\* initialize_race: the state of car i after construction
initial_car(i) ==
    [distance |-> 0 - START_GAP * i,
     position |-> (i + 1) % 256,
     current_lap |-> 1,
     speed |-> 0,
     tire_wear |-> 0,
     in_pits |-> FALSE,
     pit_timer |-> 0,
     pit_stops |-> 0,
     pit_threshold |-> pit_threshold(i)]

\* std::mt19937 stands here as a small linear congruential generator: one
\* stream, a function of the seed and of the number of draws made.
rng_seed(seed) == seed % 65537
rng_next(r) == (r * 75 + 74) % 65537
\* std::uniform_real_distribution<float>(-5, 5) on the stream, in 1e-2 km/h
speed_dist(r) == ((rng_next(r) % 10) - 5) * 100

\* update_car_physics, lines 266-268, per second
wear_rate(i) ==
    (((TIRE_WEAR_BASE_RATE * (200 + aggression(i))) \div 200)
        * (1000 - 3 * tire_management(i))) \div 1000

\* update_car_physics, lines 274-277
base_speed(i) ==
    (((BASE_SPEED_KMH * engine_power(i)) \div 100) * (8000 + 25 * consistency(i)))
        \div 10000

\* physics in which a car in the pits draws from the stream as well
update_car_physics_drawing_in_pits(car, idx, r) ==
    IF car.in_pits
    THEN LET timer == car.pit_timer - DT
             out == timer <= 0
         IN [car |-> [car EXCEPT !.pit_timer = timer,
                                 !.in_pits = ~out,
                                 !.tire_wear = IF out THEN 0 ELSE @,
                                 !.pit_stops = IF out THEN (@ + 1) % 256 ELSE @,
                                 !.speed = 0],
             rng |-> rng_next(r)]
    ELSE IF car.tire_wear >= car.pit_threshold /\ ~car.in_pits
    THEN [car |-> [car EXCEPT !.in_pits = TRUE,
                              !.pit_timer = PIT_STOP_BASE_DURATION
                                            + (100 - reliability(idx)) * 5],
          rng |-> r]
    ELSE LET wear == min(car.tire_wear + (wear_rate(idx) * DT) \div 1000, 10000)
             variation == (speed_dist(r) * (100 - consistency(idx))) \div 100
             speed == max(base_speed(idx) - (base_speed(idx) * 3 * wear) \div 100000
                          + variation, MIN_SPEED_KMH)
             distance == car.distance + (speed * DT) \div 360
             lap == IF distance >= TRACK_LENGTH * car.current_lap
                    THEN (car.current_lap + 1) % 65536 ELSE car.current_lap
         IN [car |-> [car EXCEPT !.tire_wear = wear,
                                 !.speed = speed,
                                 !.distance = distance,
                                 !.current_lap = lap],
             rng |-> rng_next(r)]

\* physics with one deviation v from update_car_physics:
\*   "count_on_entry"   a pit stop is counted when the car enters the pits
\*   "enter_above_cap"  a car enters the pits only above full wear
\*   "roll_in_pits"     a car in the pits rolls on at its last speed
\*   "lap_behind"       a lap is counted one lap's distance late
update_car_physics_with(car, idx, r, v) ==
    IF car.in_pits
    THEN LET timer == car.pit_timer - DT
             out == timer <= 0
         IN [car |-> [car EXCEPT !.pit_timer = timer,
                                 !.in_pits = ~out,
                                 !.tire_wear = IF out THEN 0 ELSE @,
                                 !.pit_stops = IF out /\ v # "count_on_entry"
                                               THEN (@ + 1) % 256 ELSE @,
                                 !.distance = IF v = "roll_in_pits"
                                              THEN @ + (car.speed * DT) \div 360
                                              ELSE @,
                                 !.speed = IF v = "roll_in_pits" THEN @ ELSE 0],
             rng |-> r]
    ELSE IF /\ car.tire_wear >= car.pit_threshold
            /\ v = "enter_above_cap" => car.tire_wear > 10000
            /\ ~car.in_pits
    THEN [car |-> [car EXCEPT !.in_pits = TRUE,
                              !.pit_timer = PIT_STOP_BASE_DURATION
                                            + (100 - reliability(idx)) * 5,
                              !.pit_stops = IF v = "count_on_entry"
                                            THEN (@ + 1) % 256 ELSE @],
          rng |-> r]
    ELSE LET wear == min(car.tire_wear + (wear_rate(idx) * DT) \div 1000, 10000)
             variation == (speed_dist(r) * (100 - consistency(idx))) \div 100
             speed == max(base_speed(idx) - (base_speed(idx) * 3 * wear) \div 100000
                          + variation, MIN_SPEED_KMH)
             distance == car.distance + (speed * DT) \div 360
             lap == IF distance >= TRACK_LENGTH * car.current_lap
                                    + (IF v = "lap_behind" THEN TRACK_LENGTH ELSE 0)
                    THEN (car.current_lap + 1) % 65536 ELSE car.current_lap
         IN [car |-> [car EXCEPT !.tire_wear = wear,
                                 !.speed = speed,
                                 !.distance = distance,
                                 !.current_lap = lap],
             rng |-> rng_next(r)]

update_car_physics_lap_behind(car, idx, r) ==
    update_car_physics_with(car, idx, r, "lap_behind")

update_car_physics_counting_entry(car, idx, r) ==
    update_car_physics_with(car, idx, r, "count_on_entry")

update_car_physics_never_entering(car, idx, r) ==
    update_car_physics_with(car, idx, r, "enter_above_cap")

update_car_physics_rolling_in_pits(car, idx, r) ==
    update_car_physics_with(car, idx, r, "roll_in_pits")

\* update_car_physics: the car after one tick, and the stream after it
update_car_physics(car, idx, r) ==
    IF car.in_pits
    THEN LET timer == car.pit_timer - DT
             out == timer <= 0
         IN [car |-> [car EXCEPT !.pit_timer = timer,
                                 !.in_pits = ~out,
                                 !.tire_wear = IF out THEN 0 ELSE @,
                                 !.pit_stops = IF out THEN (@ + 1) % 256 ELSE @,
                                 !.speed = 0],
             rng |-> r]
    ELSE IF car.tire_wear >= car.pit_threshold /\ ~car.in_pits
    THEN [car |-> [car EXCEPT !.in_pits = TRUE,
                              !.pit_timer = PIT_STOP_BASE_DURATION
                                            + (100 - reliability(idx)) * 5],
          rng |-> r]
    ELSE LET wear == min(car.tire_wear + (wear_rate(idx) * DT) \div 1000, 10000)
             variation == (speed_dist(r) * (100 - consistency(idx))) \div 100
             speed == max(base_speed(idx) - (base_speed(idx) * 3 * wear) \div 100000
                          + variation, MIN_SPEED_KMH)
             distance == car.distance + (speed * DT) \div 360
             lap == IF distance >= TRACK_LENGTH * car.current_lap
                    THEN (car.current_lap + 1) % 65536 ELSE car.current_lap
         IN [car |-> [car EXCEPT !.tire_wear = wear,
                                 !.speed = speed,
                                 !.distance = distance,
                                 !.current_lap = lap],
             rng |-> rng_next(r)]

\* update_simulation, lines 229-231: the cars in index order on one stream
\* (each car's result is bound once, as an element of a one-element set)
RECURSIVE physics_loop(_, _, _)
physics_loop(cars, r, i) ==
    IF i = NUM_DRIVERS THEN [cars |-> cars, rng |-> r]
    ELSE CHOOSE res \in {physics_loop([cars EXCEPT ![i] = u.car], u.rng, i + 1) :
                             u \in {update_car_physics(cars[i], i, r)}} : TRUE

\* a race order that is never recomputed: every car keeps its position
race_orders_kept(cars) == {[i \in Drivers |-> cars[i].position]}

\* update_race_order: the position assignments std::sort can produce, which
\* leaves the order of cars at the same distance unspecified
race_orders(cars) ==
    {p \in [Drivers -> 1..NUM_DRIVERS] :
        /\ \A a, b \in Drivers : a # b => p[a] # p[b]
        /\ \A a, b \in Drivers : cars[a].distance > cars[b].distance => p[a] < p[b]}

\* calculate_sector
calculate_sector(distance, lap) ==
    LET lap_distance == distance - TRACK_LENGTH * (lap - 1)
    IN IF 3 * lap_distance < TRACK_LENGTH THEN 0
       ELSE IF 3 * lap_distance < 2 * TRACK_LENGTH THEN 1 ELSE 2

\* create_frame: the fields it does not assign keep the zero of frame{};
\* race_time * 1000 stays far below 2^32 within MaxTicks
frame_of(st, i) ==
    LET car == st.cars[i]
    IN [timestamp_ms |-> st.race_time,
        driver_id |-> i % 256,
        position |-> car.position,
        lap |-> car.current_lap,
        sector |-> calculate_sector(car.distance, car.current_lap),
        speed |-> car.speed,
        distance |-> car.distance,
        throttle |-> IF car.in_pits THEN 0 ELSE 1000,
        tire_wear |-> car.tire_wear * 100,
        pit_stops |-> 0,
        pit_timer |-> 0,
        gap_to_leader |-> 0,
        flags |-> IF car.in_pits THEN FLAG_IN_PITS ELSE 0,
        sector_times |-> <<0, 0, 0>>,
        last_lap_time |-> 0]

\* create_frame(car_idx) on the engine's state_
create_frame(i) == frame_of(state_, i)

\* completion as soon as the leader is on the last lap
is_race_complete_on_last_lap ==
    \E i \in Drivers : state_.cars[i].position = 1
                       /\ state_.cars[i].current_lap >= total_laps_

\* is_race_complete
is_race_complete ==
    \E i \in Drivers : state_.cars[i].position = 1
                       /\ state_.cars[i].current_lap > total_laps_

\* RaceEngine::RaceEngine and TelemetryUI::TelemetryUI
constructed(seed, laps) ==
    /\ stop_flag_ = FALSE
    /\ state_ = [cars |-> [i \in Drivers |-> initial_car(i)],
                 tick_count |-> 0, race_time |-> 0]
    /\ rng_ = rng_seed(seed)
    /\ seed_ = seed
    /\ total_laps_ = laps
    /\ tick_count_ = 0
    /\ car_idx = 0
    /\ latest_frames_ = [i \in Drivers |-> [driver_id |-> INVALID_DRIVER]]
    /\ frame_counter_ = 0
    /\ renders = [periodic |-> 0, final |-> 0, shown |-> <<>>]
    /\ run_exit = "running"

\* A TelemetryFrame nothing was assigned to: the slots of a fresh
\* RingBuffer<TelemetryFrame> and the frame pop has not filled.  No code
\* path reads one before it is assigned.
NoFrame ==
    [timestamp_ms |-> 0, driver_id |-> 0, position |-> 0, lap |-> 0,
     sector |-> 0, speed |-> 0, distance |-> 0, throttle |-> 0,
     tire_wear |-> 0, pit_stops |-> 0, pit_timer |-> 0, gap_to_leader |-> 0,
     flags |-> 0, sector_times |-> <<0, 0, 0>>, last_lap_time |-> 0]

\* RingBuffer<TelemetryFrame>::RingBuffer and the threads about to enter
\* RaceEngine::run and TelemetryUI::run
frame_queue_constructed ==
    /\ buffer_ = [i \in 0..(Capacity - 1) |-> NoFrame]
    /\ head_ = 0
    /\ tail_ = 0
    /\ shutdown_ = FALSE
    /\ mutex_ = NoOwner
    /\ cv_not_empty_ = {}
    /\ cv_not_full_ = {}
    /\ pc = [t \in Threads |-> IF t = Producer THEN "run_top"
                               ELSE IF t = Consumer THEN "ui_top" ELSE "main"]
    /\ item = [t \in Threads |-> NoFrame]
    /\ ret = [t \in Threads |-> FALSE]
    /\ calls = [t \in Threads |-> 0]
    /\ sdCalls = 0
    /\ sdDone = 0

\* RingBuffer::RingBuffer
queue_constructed ==
    /\ buffer_ = [i \in 0..(Capacity - 1) |-> NoItem]
    /\ head_ = 0
    /\ tail_ = 0
    /\ shutdown_ = FALSE
    /\ mutex_ = NoOwner
    /\ cv_not_empty_ = {}
    /\ cv_not_full_ = {}

history_empty ==
    /\ accepted = <<>>
    /\ popped = <<>>
    /\ pushTrue = 0
    /\ popFalse = 0
    /\ atShutdown = NotYet
    /\ atCall = NoCall

\* The same, with the two snapshot histories switched off.
history_counts_only ==
    /\ accepted = <<>>
    /\ popped = <<>>
    /\ pushTrue = 0
    /\ popFalse = 0
    /\ atShutdown = [NotYet EXCEPT !.on = FALSE]
    /\ atCall = [NoCall EXCEPT !.on = FALSE]

\* SharedRaceState::SharedRaceState: both buffers hold the zero state (a
\* RaceState stands as its tick_count), nothing written, nobody waiting
shared_state_constructed ==
    /\ front_buffer_ = 0
    /\ back_buffer_ = 0
    /\ has_new_data_ = FALSE
    /\ should_stop_ = FALSE
    /\ cv_ = {}
    /\ written = 0
    /\ returned = <<>>

\* A producer thread, a consumer thread and an external thread about to use
\* a freshly constructed queue.
threads_idle ==
    /\ pc = [t \in Threads |-> "idle"]
    /\ item = [t \in Threads |-> NoItem]
    /\ ret = [t \in Threads |-> FALSE]
    /\ calls = [t \in Threads |-> 0]
    /\ sdCalls = 0
    /\ sdDone = 0

Init ==
    /\ queue_constructed
    /\ history_empty
    /\ constructed(42, 5)
    /\ threads_idle
    /\ shared_state_constructed

\* The same threads and queue for the progress properties, which read the
\* threads' positions and the queue only.
FairInit ==
    /\ queue_constructed
    /\ history_counts_only
    /\ constructed(42, 5)
    /\ threads_idle
    /\ shared_state_constructed

\* ------------------------------------------------------ RingBuffer::push
\* line 40 and the first evaluation of the wait predicate (43-45)
push_lock ==
    /\ pc[Producer] = "push_lock"
    /\ mutex_ = NoOwner
    /\ mutex_' = Producer
    /\ pc' = [pc EXCEPT ![Producer] = IF push_pred THEN "push_check" ELSE "push_wait"]
    /\ UNCHANGED <<buffer_, head_, tail_, shutdown_, cv_not_empty_, cv_not_full_>>
    /\ UNCHANGED <<item, ret, calls, sdCalls, sdDone>>
    /\ UNCHANGED hvars
    /\ UNCHANGED evars
    /\ UNCHANGED svars

\* condition_variable::wait: release the mutex and sleep, atomically
push_wait ==
    /\ pc[Producer] = "push_wait"
    /\ mutex_' = NoOwner
    /\ cv_not_full_' = cv_not_full_ \cup {Producer}
    /\ pc' = [pc EXCEPT ![Producer] = "push_blocked"]
    /\ UNCHANGED <<buffer_, head_, tail_, shutdown_, cv_not_empty_>>
    /\ UNCHANGED <<item, ret, calls, sdCalls, sdDone>>
    /\ UNCHANGED hvars
    /\ UNCHANGED evars
    /\ UNCHANGED svars

\* woken: re-acquire the mutex and evaluate the predicate again
push_reacquire ==
    /\ pc[Producer] = "push_woken"
    /\ mutex_ = NoOwner
    /\ mutex_' = Producer
    /\ pc' = [pc EXCEPT ![Producer] = IF push_pred THEN "push_check" ELSE "push_wait"]
    /\ UNCHANGED <<buffer_, head_, tail_, shutdown_, cv_not_empty_, cv_not_full_>>
    /\ UNCHANGED <<item, ret, calls, sdCalls, sdDone>>
    /\ UNCHANGED hvars
    /\ UNCHANGED evars
    /\ UNCHANGED svars

\* lines 47-49: if (shutdown_) return false;
push_check ==
    /\ pc[Producer] = "push_check"
    /\ IF push_shutdown_check
       THEN /\ mutex_' = NoOwner
            /\ ret' = [ret EXCEPT ![Producer] = FALSE]
            /\ pc' = [pc EXCEPT ![Producer] = "push_ret"]
       ELSE /\ pc' = [pc EXCEPT ![Producer] = "push_insert"]
            /\ UNCHANGED <<mutex_, ret>>
    /\ UNCHANGED <<buffer_, head_, tail_, shutdown_, cv_not_empty_, cv_not_full_>>
    /\ UNCHANGED <<item, calls, sdCalls, sdDone>>
    /\ UNCHANGED hvars
    /\ UNCHANGED evars
    /\ UNCHANGED svars

\* lines 51-54: store the item, advance head_, unlock
push_insert ==
    /\ pc[Producer] = "push_insert"
    /\ buffer_' = write_slot(item[Producer])
    /\ head_' = advance(head_)
    /\ mutex_' = NoOwner
    /\ accepted' = Append(accepted, item[Producer])
    /\ pc' = [pc EXCEPT ![Producer] = "push_notify"]
    /\ UNCHANGED <<tail_, shutdown_, cv_not_empty_, cv_not_full_>>
    /\ UNCHANGED <<item, ret, calls, sdCalls, sdDone>>
    /\ UNCHANGED <<popped, pushTrue, popFalse, atShutdown, atCall>>
    /\ UNCHANGED evars
    /\ UNCHANGED svars

\* lines 55-56: cv_not_empty_.notify_one(); return true;
push_notify ==
    /\ pc[Producer] = "push_notify"
    /\ notify_one(cv_not_empty_, cv_not_empty_',
                  [pc EXCEPT ![Producer] = "push_ret"], pc')
    /\ ret' = [ret EXCEPT ![Producer] = TRUE]
    /\ UNCHANGED <<buffer_, head_, tail_, shutdown_, mutex_, cv_not_full_>>
    /\ UNCHANGED <<item, calls, sdCalls, sdDone>>
    /\ UNCHANGED hvars
    /\ UNCHANGED evars
    /\ UNCHANGED svars

\* ------------------------------------------------------- RingBuffer::pop
\* line 65 and the first evaluation of the wait predicate (68-70)
pop_lock ==
    /\ pc[Consumer] = "pop_lock"
    /\ mutex_ = NoOwner
    /\ mutex_' = Consumer
    /\ pc' = [pc EXCEPT ![Consumer] = IF pop_pred THEN "pop_check" ELSE "pop_wait"]
    /\ UNCHANGED <<buffer_, head_, tail_, shutdown_, cv_not_empty_, cv_not_full_>>
    /\ UNCHANGED <<item, ret, calls, sdCalls, sdDone>>
    /\ UNCHANGED hvars
    /\ UNCHANGED evars
    /\ UNCHANGED svars

\* condition_variable::wait: release the mutex and sleep, atomically
pop_wait ==
    /\ pc[Consumer] = "pop_wait"
    /\ mutex_' = NoOwner
    /\ cv_not_empty_' = cv_not_empty_ \cup {Consumer}
    /\ pc' = [pc EXCEPT ![Consumer] = "pop_blocked"]
    /\ UNCHANGED <<buffer_, head_, tail_, shutdown_, cv_not_full_>>
    /\ UNCHANGED <<item, ret, calls, sdCalls, sdDone>>
    /\ UNCHANGED hvars
    /\ UNCHANGED evars
    /\ UNCHANGED svars

\* woken: re-acquire the mutex and evaluate the predicate again
pop_reacquire ==
    /\ pc[Consumer] = "pop_woken"
    /\ mutex_ = NoOwner
    /\ mutex_' = Consumer
    /\ pc' = [pc EXCEPT ![Consumer] = IF pop_pred THEN "pop_check" ELSE "pop_wait"]
    /\ UNCHANGED <<buffer_, head_, tail_, shutdown_, cv_not_empty_, cv_not_full_>>
    /\ UNCHANGED <<item, ret, calls, sdCalls, sdDone>>
    /\ UNCHANGED hvars
    /\ UNCHANGED evars
    /\ UNCHANGED svars

\* lines 73-80: return false if shut down and empty, else take the item at
\* tail_, advance tail_, unlock
pop_check ==
    /\ pc[Consumer] = "pop_check"
    /\ mutex_' = NoOwner
    /\ IF pop_no_data
       THEN /\ ret' = [ret EXCEPT ![Consumer] = FALSE]
            /\ pc' = [pc EXCEPT ![Consumer] = "pop_ret"]
            /\ UNCHANGED <<item, tail_, popped>>
       ELSE /\ item' = [item EXCEPT ![Consumer] = buffer_[tail_]]
            /\ tail_' = advance(tail_)
            /\ popped' = Append(popped, buffer_[tail_])
            /\ pc' = [pc EXCEPT ![Consumer] = "pop_notify"]
            /\ UNCHANGED ret
    /\ UNCHANGED <<buffer_, head_, shutdown_, cv_not_empty_, cv_not_full_>>
    /\ UNCHANGED <<calls, sdCalls, sdDone>>
    /\ UNCHANGED <<accepted, pushTrue, popFalse, atShutdown, atCall>>
    /\ UNCHANGED evars
    /\ UNCHANGED svars

\* pop that returns without cv_not_full_.notify_one()
pop_without_notify ==
    /\ pc[Consumer] = "pop_notify"
    /\ pc' = [pc EXCEPT ![Consumer] = "pop_ret"]
    /\ ret' = [ret EXCEPT ![Consumer] = TRUE]
    /\ UNCHANGED qvars
    /\ UNCHANGED <<item, calls, sdCalls, sdDone>>
    /\ UNCHANGED hvars
    /\ UNCHANGED evars
    /\ UNCHANGED svars

\* lines 81-82: cv_not_full_.notify_one(); return true;
pop_notify ==
    /\ pc[Consumer] = "pop_notify"
    /\ notify_one(cv_not_full_, cv_not_full_',
                  [pc EXCEPT ![Consumer] = "pop_ret"], pc')
    /\ ret' = [ret EXCEPT ![Consumer] = TRUE]
    /\ UNCHANGED <<buffer_, head_, tail_, shutdown_, mutex_, cv_not_empty_>>
    /\ UNCHANGED <<item, calls, sdCalls, sdDone>>
    /\ UNCHANGED hvars
    /\ UNCHANGED evars
    /\ UNCHANGED svars

\* --------------------------------------------------- RingBuffer::try_pop
\* try_pop that waits for a record like pop when the queue is empty and open
try_pop_waiting ==
    /\ pc[Consumer] = "try_pop"
    /\ mutex_ = NoOwner
    /\ IF head_ = tail_
       THEN /\ IF shutdown_
               THEN /\ ret' = [ret EXCEPT ![Consumer] = FALSE]
                    /\ pc' = [pc EXCEPT ![Consumer] = "try_pop_ret"]
                    /\ UNCHANGED mutex_
               ELSE /\ mutex_' = Consumer
                    /\ pc' = [pc EXCEPT ![Consumer] = "pop_wait"]
                    /\ UNCHANGED ret
            /\ UNCHANGED <<item, tail_, popped>>
       ELSE /\ item' = [item EXCEPT ![Consumer] = buffer_[tail_]]
            /\ tail_' = advance(tail_)
            /\ popped' = Append(popped, buffer_[tail_])
            /\ pc' = [pc EXCEPT ![Consumer] = "try_pop_notify"]
            /\ UNCHANGED <<ret, mutex_>>
    /\ UNCHANGED <<buffer_, head_, shutdown_, cv_not_empty_, cv_not_full_>>
    /\ UNCHANGED <<calls, sdCalls, sdDone>>
    /\ UNCHANGED <<accepted, pushTrue, popFalse, atShutdown, atCall>>
    /\ UNCHANGED evars
    /\ UNCHANGED svars

\* lines 90-99: lock; empty -> nullopt; else take the item, advance, unlock
try_pop ==
    /\ pc[Consumer] = "try_pop"
    /\ mutex_ = NoOwner
    /\ IF head_ = tail_
       THEN /\ ret' = [ret EXCEPT ![Consumer] = FALSE]
            /\ pc' = [pc EXCEPT ![Consumer] = "try_pop_ret"]
            /\ UNCHANGED <<item, tail_, popped>>
       ELSE /\ item' = [item EXCEPT ![Consumer] = buffer_[tail_]]
            /\ tail_' = advance(tail_)
            /\ popped' = Append(popped, buffer_[tail_])
            /\ pc' = [pc EXCEPT ![Consumer] = "try_pop_notify"]
            /\ UNCHANGED ret
    /\ UNCHANGED <<buffer_, head_, shutdown_, mutex_, cv_not_empty_, cv_not_full_>>
    /\ UNCHANGED <<calls, sdCalls, sdDone>>
    /\ UNCHANGED <<accepted, pushTrue, popFalse, atShutdown, atCall>>
    /\ UNCHANGED evars
    /\ UNCHANGED svars

\* lines 100-101: cv_not_full_.notify_one(); return item;
try_pop_notify ==
    /\ pc[Consumer] = "try_pop_notify"
    /\ notify_one(cv_not_full_, cv_not_full_',
                  [pc EXCEPT ![Consumer] = "try_pop_ret"], pc')
    /\ ret' = [ret EXCEPT ![Consumer] = TRUE]
    /\ UNCHANGED <<buffer_, head_, tail_, shutdown_, mutex_, cv_not_empty_>>
    /\ UNCHANGED <<item, calls, sdCalls, sdDone>>
    /\ UNCHANGED hvars
    /\ UNCHANGED evars
    /\ UNCHANGED svars

\* -------------------------------------------------- RingBuffer::shutdown
\* shutdown that also discards the buffered records
shutdown_store_clearing(t) ==
    /\ pc[t] = "shutdown_store"
    /\ shutdown_' = TRUE
    /\ head_' = tail_
    /\ atShutdown' = IF atShutdown.set \/ ~atShutdown.on THEN atShutdown
                     ELSE [on |-> TRUE, set |-> TRUE, pushTrue |-> pushTrue,
                           popped |-> Len(popped), accepted |-> Len(accepted)]
    /\ pc' = [pc EXCEPT ![t] = "shutdown_notify_empty"]
    /\ UNCHANGED <<buffer_, tail_, mutex_, cv_not_empty_, cv_not_full_>>
    /\ UNCHANGED <<item, ret, calls, sdCalls, sdDone>>
    /\ UNCHANGED <<accepted, popped, pushTrue, popFalse, atCall>>
    /\ UNCHANGED evars
    /\ UNCHANGED svars

\* line 108: shutdown_.store(true), without the mutex
shutdown_store(t) ==
    /\ pc[t] = "shutdown_store"
    /\ shutdown_' = TRUE
    /\ atShutdown' = IF atShutdown.set \/ ~atShutdown.on THEN atShutdown
                     ELSE [on |-> TRUE, set |-> TRUE, pushTrue |-> pushTrue,
                           popped |-> Len(popped), accepted |-> Len(accepted)]
    /\ pc' = [pc EXCEPT ![t] = "shutdown_notify_empty"]
    /\ UNCHANGED <<buffer_, head_, tail_, mutex_, cv_not_empty_, cv_not_full_>>
    /\ UNCHANGED <<item, ret, calls, sdCalls, sdDone>>
    /\ UNCHANGED <<accepted, popped, pushTrue, popFalse, atCall>>
    /\ UNCHANGED evars
    /\ UNCHANGED svars

\* line 109: cv_not_empty_.notify_all()
shutdown_notify_empty(t) ==
    /\ pc[t] = "shutdown_notify_empty"
    /\ notify_all(cv_not_empty_, cv_not_empty_',
                  [pc EXCEPT ![t] = "shutdown_notify_full"], pc')
    /\ UNCHANGED <<buffer_, head_, tail_, shutdown_, mutex_, cv_not_full_>>
    /\ UNCHANGED <<item, ret, calls, sdCalls, sdDone>>
    /\ UNCHANGED hvars
    /\ UNCHANGED evars
    /\ UNCHANGED svars

\* line 110: cv_not_full_.notify_all()
shutdown_notify_full(t) ==
    /\ pc[t] = "shutdown_notify_full"
    /\ notify_all(cv_not_full_, cv_not_full_',
                  [pc EXCEPT ![t] = "shutdown_ret"], pc')
    /\ UNCHANGED <<buffer_, head_, tail_, shutdown_, mutex_, cv_not_empty_>>
    /\ UNCHANGED <<item, ret, calls, sdCalls, sdDone>>
    /\ UNCHANGED hvars
    /\ UNCHANGED evars
    /\ UNCHANGED svars

shutdown == \E t \in Threads :
    shutdown_store(t) \/ shutdown_notify_empty(t) \/ shutdown_notify_full(t)

\* A thread asleep on a condition variable may wake without a notification.
spurious_wakeup == \E t \in cv_not_empty_ \cup cv_not_full_ :
    /\ cv_not_empty_' = cv_not_empty_ \ {t}
    /\ cv_not_full_' = cv_not_full_ \ {t}
    /\ pc' = [pc EXCEPT ![t] = woken(t)]
    /\ UNCHANGED <<buffer_, head_, tail_, shutdown_, mutex_>>
    /\ UNCHANGED <<item, ret, calls, sdCalls, sdDone>>
    /\ UNCHANGED hvars
    /\ UNCHANGED evars
    /\ UNCHANGED svars

\* ------------------------------------------------- callers of the queue
\* A producer thread that pushes the records 1, 2, 3, ... : all different, so
\* that a record lost, repeated or out of order shows in the histories.
call_push == \E v \in {calls[Producer] + 1} :
    /\ pc[Producer] = "idle"
    /\ calls[Producer] < MaxPush
    /\ calls' = [calls EXCEPT ![Producer] = @ + 1]
    /\ item' = [item EXCEPT ![Producer] = v]
    /\ pc' = [pc EXCEPT ![Producer] = "push_lock"]
    /\ atCall' = IF ~atCall.on THEN atCall
                 ELSE [on |-> TRUE, sdDone |-> sdDone, head |-> head_,
                       buffer |-> buffer_, accepted |-> Len(accepted)]
    /\ UNCHANGED qvars
    /\ UNCHANGED <<ret, sdCalls, sdDone>>
    /\ UNCHANGED <<accepted, popped, pushTrue, popFalse, atShutdown>>
    /\ UNCHANGED evars
    /\ UNCHANGED svars

return_push ==
    /\ pc[Producer] = "push_ret"
    /\ pc' = [pc EXCEPT ![Producer] = "idle"]
    /\ pushTrue' = IF ret[Producer] THEN pushTrue + 1 ELSE pushTrue
    /\ atCall' = IF atCall.on THEN NoCall ELSE atCall
    /\ UNCHANGED qvars
    /\ UNCHANGED <<item, ret, calls, sdCalls, sdDone>>
    /\ UNCHANGED <<accepted, popped, popFalse, atShutdown>>
    /\ UNCHANGED evars
    /\ UNCHANGED svars

\* A consumer thread that calls pop or try_pop.
call_pop ==
    /\ pc[Consumer] = "idle"
    /\ calls[Consumer] < MaxPop
    /\ calls' = [calls EXCEPT ![Consumer] = @ + 1]
    /\ pc' = [pc EXCEPT ![Consumer] = "pop_lock"]
    /\ UNCHANGED qvars
    /\ UNCHANGED <<item, ret, sdCalls, sdDone>>
    /\ UNCHANGED hvars
    /\ UNCHANGED evars
    /\ UNCHANGED svars

call_try_pop ==
    /\ pc[Consumer] = "idle"
    /\ calls[Consumer] < MaxPop
    /\ calls' = [calls EXCEPT ![Consumer] = @ + 1]
    /\ pc' = [pc EXCEPT ![Consumer] = "try_pop"]
    /\ UNCHANGED qvars
    /\ UNCHANGED <<item, ret, sdCalls, sdDone>>
    /\ UNCHANGED hvars
    /\ UNCHANGED evars
    /\ UNCHANGED svars

return_pop ==
    /\ pc[Consumer] \in {"pop_ret", "try_pop_ret"}
    /\ pc' = [pc EXCEPT ![Consumer] = "idle"]
    /\ popFalse' = IF pc[Consumer] = "pop_ret" /\ ~ret[Consumer]
                   THEN popFalse + 1 ELSE popFalse
    /\ UNCHANGED qvars
    /\ UNCHANGED <<item, ret, calls, sdCalls, sdDone>>
    /\ UNCHANGED <<accepted, popped, pushTrue, atShutdown, atCall>>
    /\ UNCHANGED evars
    /\ UNCHANGED svars

\* Any thread may call shutdown(): the producer side, the consumer side, an
\* external caller, and the destructor (lines 26-28) as one more call.
call_shutdown == \E t \in Threads :
    /\ pc[t] = "idle"
    /\ sdCalls < MaxShutdown
    /\ sdCalls' = sdCalls + 1
    /\ pc' = [pc EXCEPT ![t] = "shutdown_store"]
    /\ UNCHANGED qvars
    /\ UNCHANGED <<item, ret, calls, sdDone>>
    /\ UNCHANGED hvars
    /\ UNCHANGED evars
    /\ UNCHANGED svars

return_shutdown_of(t) ==
    /\ pc[t] = "shutdown_ret"
    /\ sdDone' = sdDone + 1
    /\ pc' = [pc EXCEPT ![t] = "idle"]
    /\ UNCHANGED qvars
    /\ UNCHANGED <<item, ret, calls, sdCalls>>
    /\ UNCHANGED hvars
    /\ UNCHANGED evars
    /\ UNCHANGED svars

return_shutdown == \E t \in Threads : return_shutdown_of(t)

shutdown_step(t) ==
    \/ shutdown_store(t) \/ shutdown_notify_empty(t) \/ shutdown_notify_full(t)
    \/ return_shutdown_of(t)

producer_step ==
    \/ push_lock \/ push_wait \/ push_reacquire \/ push_check
    \/ push_insert \/ push_notify \/ return_push \/ shutdown_step(Producer)

consumer_step ==
    \/ pop_lock \/ pop_wait \/ pop_reacquire \/ pop_check \/ pop_notify
    \/ try_pop \/ try_pop_notify \/ return_pop \/ shutdown_step(Consumer)

external_step == shutdown_step(External)

\* -------------------------------------------------------- RaceEngine::run
\* a loop that never reads the stop flag
run_check_stop_unpolled ==
    /\ pc[Producer] = "run_top"
    /\ pc' = [pc EXCEPT ![Producer] = "run_update"]
    /\ UNCHANGED qvars
    /\ UNCHANGED <<item, ret, calls, sdCalls, sdDone>>
    /\ UNCHANGED hvars
    /\ UNCHANGED evars
    /\ UNCHANGED svars

\* a loop that stores the queue's shutdown flag when it finds the stop flag
run_check_stop_shutting ==
    /\ pc[Producer] = "run_top"
    /\ IF stop_flag_
       THEN /\ pc' = [pc EXCEPT ![Producer] = "run_done"]
            /\ run_exit' = "stop"
            /\ shutdown_' = TRUE
       ELSE /\ pc' = [pc EXCEPT ![Producer] = "run_update"]
            /\ UNCHANGED <<run_exit, shutdown_>>
    /\ UNCHANGED <<buffer_, head_, tail_, mutex_, cv_not_empty_, cv_not_full_>>
    /\ UNCHANGED <<item, ret, calls, sdCalls, sdDone>>
    /\ UNCHANGED hvars
    /\ UNCHANGED <<stop_flag_, state_, rng_, total_laps_, seed_, tick_count_, car_idx,
                   latest_frames_, frame_counter_, renders>>
    /\ UNCHANGED svars

\* line 55: while (!stop_flag_.load())
run_check_stop ==
    /\ pc[Producer] = "run_top"
    /\ IF stop_flag_
       THEN /\ pc' = [pc EXCEPT ![Producer] = "run_done"]
            /\ run_exit' = "stop"
       ELSE /\ pc' = [pc EXCEPT ![Producer] = "run_update"]
            /\ UNCHANGED run_exit
    /\ UNCHANGED qvars
    /\ UNCHANGED <<item, ret, calls, sdCalls, sdDone>>
    /\ UNCHANGED hvars
    /\ UNCHANGED <<stop_flag_, state_, rng_, total_laps_, seed_, tick_count_, car_idx,
                   latest_frames_, frame_counter_, renders>>
    /\ UNCHANGED svars

\* line 57, update_simulation: tick, physics of every car, race order
update_simulation ==
    /\ pc[Producer] = "run_update"
    /\ tick_count_ < MaxTicks
    /\ \E u \in {physics_loop(state_.cars, rng_, 0)} :
          /\ \E p \in race_orders(u.cars) :
                state_' = [cars |-> [i \in Drivers |->
                                        [u.cars[i] EXCEPT !.position = p[i] % 256]],
                           tick_count |-> tick_count_ + 1,
                           race_time |-> state_.race_time + DT]
          /\ rng_' = u.rng
    /\ tick_count_' = tick_count_ + 1
    /\ car_idx' = 0
    /\ pc' = [pc EXCEPT ![Producer] = "run_push"]
    /\ UNCHANGED qvars
    /\ UNCHANGED <<item, ret, calls, sdCalls, sdDone>>
    /\ UNCHANGED hvars
    /\ UNCHANGED <<stop_flag_, total_laps_, seed_, latest_frames_, frame_counter_,
                   renders, run_exit>>
    /\ UNCHANGED svars

\* a push loop that walks the entities from the last to the first
run_push_reversed ==
    /\ pc[Producer] = "run_push"
    /\ item' = [item EXCEPT ![Producer] = create_frame(NUM_DRIVERS - 1 - car_idx)]
    /\ pc' = [pc EXCEPT ![Producer] = "push_lock"]
    /\ atCall' = IF ~atCall.on THEN atCall
                 ELSE [on |-> TRUE, sdDone |-> sdDone, head |-> head_,
                       buffer |-> buffer_, accepted |-> Len(accepted)]
    /\ UNCHANGED qvars
    /\ UNCHANGED <<ret, calls, sdCalls, sdDone>>
    /\ UNCHANGED <<accepted, popped, pushTrue, popFalse, atShutdown>>
    /\ UNCHANGED evars
    /\ UNCHANGED svars

\* lines 60-62: frame = create_frame(i); ring_buffer_.push(frame)
run_push ==
    /\ pc[Producer] = "run_push"
    /\ item' = [item EXCEPT ![Producer] = create_frame(car_idx)]
    /\ pc' = [pc EXCEPT ![Producer] = "push_lock"]
    /\ atCall' = IF ~atCall.on THEN atCall
                 ELSE [on |-> TRUE, sdDone |-> sdDone, head |-> head_,
                       buffer |-> buffer_, accepted |-> Len(accepted)]
    /\ UNCHANGED qvars
    /\ UNCHANGED <<ret, calls, sdCalls, sdDone>>
    /\ UNCHANGED <<accepted, popped, pushTrue, popFalse, atShutdown>>
    /\ UNCHANGED evars
    /\ UNCHANGED svars

\* a loop that goes on to the next entity after a failed push
run_push_return_skipping ==
    /\ pc[Producer] = "push_ret"
    /\ pc' = [pc EXCEPT ![Producer] =
                 IF car_idx + 1 < NUM_DRIVERS THEN "run_push" ELSE "run_complete"]
    /\ car_idx' = car_idx + 1
    /\ pushTrue' = IF ret[Producer] THEN pushTrue + 1 ELSE pushTrue
    /\ atCall' = IF atCall.on THEN NoCall ELSE atCall
    /\ UNCHANGED qvars
    /\ UNCHANGED <<item, ret, calls, sdCalls, sdDone>>
    /\ UNCHANGED <<accepted, popped, popFalse, atShutdown>>
    /\ UNCHANGED <<stop_flag_, state_, rng_, total_laps_, seed_, tick_count_,
                   latest_frames_, frame_counter_, renders, run_exit>>
    /\ UNCHANGED svars

\* lines 62-66: a failed push returns from run; otherwise ++i
run_push_return ==
    /\ pc[Producer] = "push_ret"
    /\ IF ~ret[Producer]
       THEN /\ pc' = [pc EXCEPT ![Producer] = "run_done"]
            /\ run_exit' = "push_failed"
            /\ UNCHANGED <<car_idx, pushTrue>>
       ELSE /\ pc' = [pc EXCEPT ![Producer] =
                        IF car_idx + 1 < NUM_DRIVERS THEN "run_push" ELSE "run_complete"]
            /\ car_idx' = car_idx + 1
            /\ pushTrue' = pushTrue + 1
            /\ UNCHANGED run_exit
    /\ atCall' = IF atCall.on THEN NoCall ELSE atCall
    /\ UNCHANGED qvars
    /\ UNCHANGED <<item, ret, calls, sdCalls, sdDone>>
    /\ UNCHANGED <<accepted, popped, popFalse, atShutdown>>
    /\ UNCHANGED <<stop_flag_, state_, rng_, total_laps_, seed_, tick_count_,
                   latest_frames_, frame_counter_, renders>>
    /\ UNCHANGED svars

\* lines 69-76: race complete -> store the stop flag and break; otherwise
\* sleep until the next tick
run_check_complete ==
    /\ pc[Producer] = "run_complete"
    /\ IF is_race_complete
       THEN /\ stop_flag_' = TRUE
            /\ pc' = [pc EXCEPT ![Producer] = "run_done"]
            /\ run_exit' = "complete"
       ELSE /\ pc' = [pc EXCEPT ![Producer] = "run_top"]
            /\ UNCHANGED <<stop_flag_, run_exit>>
    /\ UNCHANGED qvars
    /\ UNCHANGED <<item, ret, calls, sdCalls, sdDone>>
    /\ UNCHANGED hvars
    /\ UNCHANGED <<state_, rng_, total_laps_, seed_, tick_count_, car_idx,
                   latest_frames_, frame_counter_, renders>>
    /\ UNCHANGED svars

\* ------------------------------------------------------- TelemetryUI::run
\* lines 70-74: while (!stop_flag_.load()) { ring_buffer_.pop(frame)
ui_check_stop ==
    /\ pc[Consumer] = "ui_top"
    /\ pc' = [pc EXCEPT ![Consumer] = IF stop_flag_ THEN "ui_final" ELSE "pop_lock"]
    /\ UNCHANGED qvars
    /\ UNCHANGED <<item, ret, calls, sdCalls, sdDone>>
    /\ UNCHANGED hvars
    /\ UNCHANGED evars
    /\ UNCHANGED svars

\* a consumer that stores each frame in the slot after its driver's
ui_pop_return_next_slot ==
    /\ pc[Consumer] = "pop_ret"
    /\ IF ~ret[Consumer]
       THEN /\ pc' = [pc EXCEPT ![Consumer] = "ui_final"]
            /\ popFalse' = popFalse + 1
            /\ UNCHANGED <<latest_frames_, frame_counter_, renders>>
       ELSE LET frame == item[Consumer]
                frames == [latest_frames_ EXCEPT
                              ![(frame.driver_id + 1) % NUM_DRIVERS] = frame]
                counter == IF frame.driver_id = 0 THEN frame_counter_ + 1
                           ELSE frame_counter_
            IN /\ latest_frames_' = frames
               /\ frame_counter_' = counter
               /\ renders' = IF frame.driver_id = 0 /\ counter % RENDER_EVERY = 0
                             THEN [renders EXCEPT !.periodic = @ + 1, !.shown = frames]
                             ELSE renders
               /\ pc' = [pc EXCEPT ![Consumer] = "ui_top"]
               /\ UNCHANGED popFalse
    /\ UNCHANGED qvars
    /\ UNCHANGED <<item, ret, calls, sdCalls, sdDone>>
    /\ UNCHANGED <<accepted, popped, pushTrue, atShutdown, atCall>>
    /\ UNCHANGED <<stop_flag_, state_, rng_, total_laps_, seed_, tick_count_, car_idx,
                   run_exit>>
    /\ UNCHANGED svars

\* the consumer's handling of a pop with one deviation v from ui_pop_return:
\*   "store_on_render"  a frame is stored in its slot only when it is rendered
\*   "count_all"        the frames of every driver count towards a render
ui_pop_return_with(v) ==
    /\ pc[Consumer] = "pop_ret"
    /\ IF ~ret[Consumer]
       THEN /\ pc' = [pc EXCEPT ![Consumer] = "ui_final"]
            /\ popFalse' = popFalse + 1
            /\ UNCHANGED <<latest_frames_, frame_counter_, renders>>
       ELSE LET frame == item[Consumer]
                counted == frame.driver_id = 0 \/ v = "count_all"
                counter == IF counted THEN frame_counter_ + 1 ELSE frame_counter_
                render == counted /\ counter % RENDER_EVERY = 0
                frames == IF v = "store_on_render" /\ ~render THEN latest_frames_
                          ELSE [latest_frames_ EXCEPT ![frame.driver_id] = frame]
            IN /\ latest_frames_' = frames
               /\ frame_counter_' = counter
               /\ renders' = IF render
                             THEN [renders EXCEPT !.periodic = @ + 1, !.shown = frames]
                             ELSE renders
               /\ pc' = [pc EXCEPT ![Consumer] = "ui_top"]
               /\ UNCHANGED popFalse
    /\ UNCHANGED qvars
    /\ UNCHANGED <<item, ret, calls, sdCalls, sdDone>>
    /\ UNCHANGED <<accepted, popped, pushTrue, atShutdown, atCall>>
    /\ UNCHANGED <<stop_flag_, state_, rng_, total_laps_, seed_, tick_count_, car_idx,
                   run_exit>>
    /\ UNCHANGED svars

ui_pop_return_storing_rendered == ui_pop_return_with("store_on_render")

ui_pop_return_counting_all == ui_pop_return_with("count_all")

\* lines 74-88: no data -> leave the loop; otherwise store the frame in its
\* driver's slot and render on every 10th frame of driver 0
ui_pop_return ==
    /\ pc[Consumer] = "pop_ret"
    /\ IF ~ret[Consumer]
       THEN /\ pc' = [pc EXCEPT ![Consumer] = "ui_final"]
            /\ popFalse' = popFalse + 1
            /\ UNCHANGED <<latest_frames_, frame_counter_, renders>>
       ELSE LET frame == item[Consumer]
                frames == [latest_frames_ EXCEPT ![frame.driver_id] = frame]
                counter == IF frame.driver_id = 0 THEN frame_counter_ + 1
                           ELSE frame_counter_
            IN /\ latest_frames_' = frames
               /\ frame_counter_' = counter
               /\ renders' = IF frame.driver_id = 0 /\ counter % RENDER_EVERY = 0
                             THEN [renders EXCEPT !.periodic = @ + 1, !.shown = frames]
                             ELSE renders
               /\ pc' = [pc EXCEPT ![Consumer] = "ui_top"]
               /\ UNCHANGED popFalse
    /\ UNCHANGED qvars
    /\ UNCHANGED <<item, ret, calls, sdCalls, sdDone>>
    /\ UNCHANGED <<accepted, popped, pushTrue, atShutdown, atCall>>
    /\ UNCHANGED <<stop_flag_, state_, rng_, total_laps_, seed_, tick_count_, car_idx,
                   run_exit>>
    /\ UNCHANGED svars

\* a consumer that returns from run() without the final leaderboard
ui_final_render_skipped ==
    /\ pc[Consumer] = "ui_final"
    /\ pc' = [pc EXCEPT ![Consumer] = "ui_done"]
    /\ UNCHANGED qvars
    /\ UNCHANGED <<item, ret, calls, sdCalls, sdDone>>
    /\ UNCHANGED hvars
    /\ UNCHANGED evars
    /\ UNCHANGED svars

\* lines 91-94: the final leaderboard
ui_final_render ==
    /\ pc[Consumer] = "ui_final"
    /\ renders' = [renders EXCEPT !.final = @ + 1, !.shown = latest_frames_]
    /\ pc' = [pc EXCEPT ![Consumer] = "ui_done"]
    /\ UNCHANGED qvars
    /\ UNCHANGED <<item, ret, calls, sdCalls, sdDone>>
    /\ UNCHANGED hvars
    /\ UNCHANGED <<stop_flag_, state_, rng_, total_laps_, seed_, tick_count_, car_idx,
                   latest_frames_, frame_counter_, run_exit>>
    /\ UNCHANGED svars

\* ------------------------------------------------------ external stop
\* The user interrupt: the stop flag is set and shutdown is signalled
\* directly to the queue.
external_stop ==
    /\ pc[External] = "main"
    /\ stop_flag_' = TRUE
    /\ sdCalls' = sdCalls + 1
    /\ pc' = [pc EXCEPT ![External] = "shutdown_store"]
    /\ UNCHANGED qvars
    /\ UNCHANGED <<item, ret, calls, sdDone>>
    /\ UNCHANGED hvars
    /\ UNCHANGED <<state_, rng_, total_laps_, seed_, tick_count_, car_idx,
                   latest_frames_, frame_counter_, renders, run_exit>>
    /\ UNCHANGED svars

Seeds == 1..NumSeeds
Laps == 1..MaxLaps

\* The engine and the UI constructed on a fresh queue, threads about to
\* enter their run().  The properties of the race read the records and the
\* counts, not the two snapshot histories.
RaceInit ==
    /\ frame_queue_constructed
    /\ history_counts_only
    /\ \E seed \in Seeds, laps \in Laps : constructed(seed, laps)
    /\ shared_state_constructed

\* update_race_order alone, as update_simulation calls it at the end of a
\* tick: the positions std::sort's order of the cars by distance gives
update_race_order ==
    /\ pc[Producer] = "run_update"
    /\ \E p \in race_orders(state_.cars) :
          state_' = [state_ EXCEPT !.cars =
                        [i \in Drivers |->
                            [state_.cars[i] EXCEPT !.position = p[i] % 256]]]
    /\ pc' = [pc EXCEPT ![Producer] = "run_push"]
    /\ UNCHANGED qvars
    /\ UNCHANGED <<item, ret, calls, sdCalls, sdDone>>
    /\ UNCHANGED hvars
    /\ UNCHANGED <<stop_flag_, rng_, total_laps_, seed_, tick_count_, car_idx,
                   latest_frames_, frame_counter_, renders, run_exit>>
    /\ UNCHANGED svars

\* update_race_order on distances chosen freely: the engine in the middle
\* of a tick, the physics done and the race order about to be recomputed,
\* each car at some distance up to MaxOrderDistance, nothing pushed yet.
OrderInit ==
    /\ buffer_ = [i \in 0..(Capacity - 1) |-> NoFrame]
    /\ head_ = 0
    /\ tail_ = 0
    /\ shutdown_ = FALSE
    /\ mutex_ = NoOwner
    /\ cv_not_empty_ = {}
    /\ cv_not_full_ = {}
    /\ pc = [t \in Threads |-> IF t = Producer THEN "run_update"
                               ELSE IF t = Consumer THEN "ui_top" ELSE "main"]
    /\ item = [t \in Threads |-> NoFrame]
    /\ ret = [t \in Threads |-> FALSE]
    /\ calls = [t \in Threads |-> 0]
    /\ sdCalls = 0
    /\ sdDone = 0
    /\ history_counts_only
    /\ \E dist \in [Drivers -> 0..MaxOrderDistance] :
          state_ = [cars |-> [i \in Drivers |->
                                [initial_car(i) EXCEPT !.distance = dist[i]]],
                    tick_count |-> 1, race_time |-> DT]
    /\ stop_flag_ = FALSE
    /\ rng_ = rng_seed(1)
    /\ seed_ = 1
    /\ total_laps_ = 1
    /\ tick_count_ = 1
    /\ car_idx = 0
    /\ latest_frames_ = [i \in Drivers |-> [driver_id |-> INVALID_DRIVER]]
    /\ frame_counter_ = 0
    /\ renders = [periodic |-> 0, final |-> 0, shown |-> <<>>]
    /\ run_exit = "running"
    /\ shared_state_constructed

OrderNext == update_race_order

OrderSpec == OrderInit /\ [][OrderNext]_vars

\* ------------------------------------------------------ SharedRaceState
\* A writer (the producer thread), a reader (the consumer thread) and a
\* thread that signals the stop.  Each region under SharedRaceState::mutex_
\* is one step: the mutex lets no other region run inside it, and a wait
\* gives the mutex up as it falls asleep.  A RaceState is its tick_count;
\* the k-th write_state publishes the state of tick k.

\* write_state, lines 28-32: back_buffer_ = new_state; has_new_data_ = true
write_state ==
    /\ pc[Producer] = "write_idle"
    /\ written < MaxWrites
    /\ back_buffer_' = written + 1
    /\ has_new_data_' = TRUE
    /\ written' = written + 1
    /\ pc' = [pc EXCEPT ![Producer] = "write_notify"]
    /\ UNCHANGED <<front_buffer_, should_stop_, cv_, returned>>
    /\ UNCHANGED <<qvars, item, ret, calls, sdCalls, sdDone, hvars, evars>>

\* write_state, line 34: cv_.notify_one()
write_state_notify ==
    /\ pc[Producer] = "write_notify"
    /\ IF cv_ = {}
       THEN /\ pc' = [pc EXCEPT ![Producer] = "write_idle"]
            /\ UNCHANGED cv_
       ELSE \E t \in cv_ :
               /\ cv_' = cv_ \ {t}
               /\ pc' = [pc EXCEPT ![Producer] = "write_idle", ![t] = "read_woken"]
    /\ UNCHANGED <<front_buffer_, back_buffer_, has_new_data_, should_stop_,
                   written, returned>>
    /\ UNCHANGED <<qvars, item, ret, calls, sdCalls, sdDone, hvars, evars>>

\* read_state, lines 38-58, entered or resumed after a wake-up: the wait
\* predicate has_new_data_ || should_stop_ is evaluated under the mutex; if
\* it is false the thread falls asleep on cv_, otherwise read_state returns
\* front_buffer_, as it is when should_stop_ is set and after swapping the
\* buffers and clearing has_new_data_ when it is not
read_state ==
    /\ pc[Consumer] \in {"read_idle", "read_woken"}
    /\ pc[Consumer] = "read_idle" => Len(returned) < MaxReads
    /\ IF ~(has_new_data_ \/ should_stop_)
       THEN /\ cv_' = cv_ \cup {Consumer}
            /\ pc' = [pc EXCEPT ![Consumer] = "read_wait"]
            /\ UNCHANGED <<front_buffer_, back_buffer_, has_new_data_, returned>>
       ELSE /\ IF should_stop_
               THEN UNCHANGED <<front_buffer_, back_buffer_, has_new_data_>>
               ELSE /\ front_buffer_' = back_buffer_
                    /\ back_buffer_' = front_buffer_
                    /\ has_new_data_' = FALSE
            /\ returned' = Append(returned,
                                  [value |-> front_buffer_', latest |-> written,
                                   unread |-> has_new_data_, stop |-> should_stop_])
            /\ pc' = [pc EXCEPT ![Consumer] = "read_idle"]
            /\ UNCHANGED cv_
    /\ UNCHANGED <<should_stop_, written>>
    /\ UNCHANGED <<qvars, item, ret, calls, sdCalls, sdDone, hvars, evars>>

\* std::condition_variable::wait may return without a notification
read_state_spurious_wakeup ==
    /\ pc[Consumer] = "read_wait"
    /\ Consumer \in cv_
    /\ cv_' = cv_ \ {Consumer}
    /\ pc' = [pc EXCEPT ![Consumer] = "read_woken"]
    /\ UNCHANGED <<front_buffer_, back_buffer_, has_new_data_, should_stop_,
                   written, returned>>
    /\ UNCHANGED <<qvars, item, ret, calls, sdCalls, sdDone, hvars, evars>>

\* signal_stop, lines 82-85: should_stop_ = true
signal_stop ==
    /\ pc[External] = "stop_idle"
    /\ should_stop_' = TRUE
    /\ pc' = [pc EXCEPT ![External] = "stop_notify"]
    /\ UNCHANGED <<front_buffer_, back_buffer_, has_new_data_, cv_, written,
                   returned>>
    /\ UNCHANGED <<qvars, item, ret, calls, sdCalls, sdDone, hvars, evars>>

\* signal_stop, line 86: cv_.notify_all()
signal_stop_notify ==
    /\ pc[External] = "stop_notify"
    /\ cv_' = {}
    /\ pc' = [t \in Threads |-> IF t = External THEN "stop_done"
                                 ELSE IF t \in cv_ THEN "read_woken" ELSE pc[t]]
    /\ UNCHANGED <<front_buffer_, back_buffer_, has_new_data_, should_stop_,
                   written, returned>>
    /\ UNCHANGED <<qvars, item, ret, calls, sdCalls, sdDone, hvars, evars>>

\* A constructed SharedRaceState with its writer, its reader and the thread
\* that will signal the stop, next to an engine and a queue nobody uses.
SharedInit ==
    /\ queue_constructed
    /\ history_counts_only
    /\ constructed(42, 5)
    /\ shared_state_constructed
    /\ pc = [t \in Threads |-> IF t = Producer THEN "write_idle"
                               ELSE IF t = Consumer THEN "read_idle"
                               ELSE "stop_idle"]
    /\ item = [t \in Threads |-> NoItem]
    /\ ret = [t \in Threads |-> FALSE]
    /\ calls = [t \in Threads |-> 0]
    /\ sdCalls = 0
    /\ sdDone = 0

SharedNext ==
    \/ write_state \/ write_state_notify
    \/ read_state \/ read_state_spurious_wakeup
    \/ signal_stop \/ signal_stop_notify

SharedSpec == SharedInit /\ [][SharedNext]_vars

RaceNext ==
    \/ run_check_stop \/ update_simulation \/ run_push \/ run_push_return
    \/ run_check_complete
    \/ push_lock \/ push_wait \/ push_reacquire \/ push_check
    \/ push_insert \/ push_notify
    \/ ui_check_stop \/ ui_pop_return \/ ui_final_render
    \/ pop_lock \/ pop_wait \/ pop_reacquire \/ pop_check \/ pop_notify
    \/ external_stop \/ shutdown \/ return_shutdown
    \/ spurious_wakeup

RaceSpec == RaceInit /\ [][RaceNext]_vars

\* The steps of the thread in RaceEngine::run and of the thread in
\* TelemetryUI::run.
run_step ==
    \/ run_check_stop \/ update_simulation \/ run_push \/ run_push_return
    \/ run_check_complete
    \/ push_lock \/ push_wait \/ push_reacquire \/ push_check
    \/ push_insert \/ push_notify

ui_step ==
    \/ ui_check_stop \/ ui_pop_return \/ ui_final_render
    \/ pop_lock \/ pop_wait \/ pop_reacquire \/ pop_check \/ pop_notify

\* Both threads run whenever they can, and a shutdown() that was called runs
\* to its end; nothing obliges the user to interrupt.
FairRaceSpec ==
    /\ RaceInit
    /\ [][RaceNext]_vars
    /\ SF_vars(run_step)
    /\ SF_vars(ui_step)
    /\ SF_vars(external_step)

Next ==
    \/ push_lock \/ push_wait \/ push_reacquire \/ push_check
    \/ push_insert \/ push_notify
    \/ pop_lock \/ pop_wait \/ pop_reacquire \/ pop_check \/ pop_notify
    \/ try_pop \/ try_pop_notify
    \/ shutdown \/ spurious_wakeup
    \/ call_push \/ return_push
    \/ call_pop \/ call_try_pop \/ return_pop
    \/ call_shutdown \/ return_shutdown

Spec == Init /\ [][Next]_vars

FairSpec ==
    /\ FairInit
    /\ [][Next]_vars
    /\ SF_vars(producer_step)
    /\ SF_vars(consumer_step)
    /\ SF_vars(external_step)

\* ======================================================== properties
live == Len(accepted) - Len(popped)

IsPrefix(a, b) == Len(a) <= Len(b) /\ \A k \in 1..Len(a) : a[k] = b[k]

InPush == pc[Producer] \in {"push_lock", "push_wait", "push_blocked",
                            "push_woken", "push_check", "push_insert",
                            "push_notify"}
InPop == pc[Consumer] \in {"pop_lock", "pop_wait", "pop_blocked",
                           "pop_woken", "pop_check", "pop_notify"}

\* C1: the values returned by successful pops are, in order, a prefix of the
\* values accepted by successful pushes; once as many were popped as were
\* accepted the two sequences are equal.
FifoOrder == IsPrefix(popped, accepted)

\* C1 witness: three records pushed and popped with no shutdown, the cursors
\* having wrapped around.
FifoOrderWitness ==
    /\ ~shutdown_
    /\ Len(popped) >= 3
    /\ popped = accepted
    /\ pc[Consumer] = "idle"

\* C2: head_ and tail_ stay in 0..Capacity-1, the number of live records is
\* (head_ - tail_) mod Capacity and at most Capacity - 1, and push stores a
\* record only when head_ would not advance onto tail_.
CapacityBound ==
    /\ head_ \in 0..(Capacity - 1)
    /\ tail_ \in 0..(Capacity - 1)
    /\ live = (head_ - tail_ + Capacity) % Capacity
    /\ live <= Capacity - 1
    /\ pc[Producer] = "push_insert" => (head_ + 1) % Capacity # tail_

\* C2 witness: the producer asleep in push with Capacity - 1 records buffered.
CapacityBoundWitness ==
    /\ pc[Producer] = "push_blocked"
    /\ live = Capacity - 1
    /\ ~shutdown_

\* C3 as stated: once a pop has reported no-data, the number of records
\* popped is the number K of pushes that had returned true when shutdown was
\* signalled.
ShutdownLeavesExactlyK == popFalse > 0 => Len(popped) = atShutdown.pushTrue

\* C3 amended: every record a push stored is accounted for by a push that
\* returned or will return true (a push that returned false stored nothing);
\* once a pop has reported no-data, the records popped are exactly the records
\* accepted, in order, and the queue is empty; the accepted records are the
\* K of the pushes that had returned true at the shutdown store, plus at most
\* one whose push was already past its shutdown check at that moment.
ShutdownDrainsAccepted ==
    /\ Len(accepted) = pushTrue + (IF pc[Producer] = "push_notify"
                                      \/ (pc[Producer] = "push_ret" /\ ret[Producer])
                                   THEN 1 ELSE 0)
    /\ popFalse > 0 =>
        /\ atShutdown.set
        /\ popped = accepted
        /\ head_ = tail_
        /\ Len(accepted) \in {atShutdown.pushTrue, atShutdown.pushTrue + 1}

\* C3 witness: shutdown with records still buffered and a later push refused;
\* the consumer drained the records and then got no-data.
ShutdownDrainsWitness ==
    /\ popFalse > 0
    /\ Len(popped) > atShutdown.popped
    /\ calls[Producer] > Len(accepted)
    /\ pc[Producer] = "idle"

\* C4: a push called after a shutdown() call has returned returns false; a
\* push that returns false has stored nothing and left head_ where it was;
\* no step of push moves tail_.
PushAfterShutdownFails ==
    /\ [](pc[Producer] = "push_ret" =>
            /\ atCall.sdDone > 0 => ~ret[Producer]
            /\ ~ret[Producer] => /\ head_ = atCall.head
                                 /\ buffer_ = atCall.buffer
                                 /\ Len(accepted) = atCall.accepted)
    /\ [][(InPush /\ pc'[Producer] # pc[Producer]) => tail_' = tail_]_vars

\* C4 witness: a push called after shutdown() completed, on a full queue, has
\* returned false.
PushAfterShutdownWitness ==
    /\ pc[Producer] = "push_ret"
    /\ ~ret[Producer]
    /\ atCall.sdDone > 0
    /\ (head_ + 1) % Capacity = tail_

\* C5: when pop decides under the lock, it reports no-data only if the queue
\* is empty and shut down, and leaves tail_; if a record is buffered it takes
\* the record at tail_ and advances tail_ by one modulo Capacity, shut down
\* or not.
PopContract ==
    [][(pc[Consumer] = "pop_check" /\ pc'[Consumer] # "pop_check") =>
        IF head_ = tail_
        THEN /\ shutdown_
             /\ pc'[Consumer] = "pop_ret"
             /\ ~ret'[Consumer]
             /\ tail_' = tail_
             /\ popped' = popped
        ELSE /\ pc'[Consumer] = "pop_notify"
             /\ item'[Consumer] = buffer_[tail_]
             /\ popped' = Append(popped, buffer_[tail_])
             /\ tail_' = (tail_ + 1) % Capacity]_vars

\* C5 witness: pop has returned a record that it took after shutdown.
PopContractWitness ==
    /\ pc[Consumer] = "pop_ret"
    /\ ret[Consumer]
    /\ atShutdown.set
    /\ Len(popped) > atShutdown.accepted - 1
    /\ Len(popped) > atShutdown.popped

\* C6 as stated: a thread that is inside push or pop when the queue is shut
\* down eventually leaves that call.
ShutdownWakesAll ==
    /\ (shutdown_ /\ InPush) ~> ~InPush
    /\ (shutdown_ /\ InPop) ~> ~InPop

\* C7: the shutdown flag never returns to false, and no step of shutdown(),
\* first call or later, changes the buffer, head_ or tail_.
ShutdownIdempotent ==
    [][/\ shutdown_ => shutdown_'
       /\ (\E t \in Threads :
              /\ pc[t] \in {"shutdown_store", "shutdown_notify_empty",
                            "shutdown_notify_full", "shutdown_ret"}
              /\ pc'[t] # pc[t])
          => /\ shutdown_'
             /\ buffer_' = buffer_
             /\ head_' = head_
             /\ tail_' = tail_]_vars

\* C7 witness: two shutdown() calls have returned and the records buffered
\* before them are still there.
ShutdownIdempotentWitness ==
    /\ sdDone >= 2
    /\ shutdown_
    /\ head_ # tail_
    /\ live > 0

\* C8: try_pop never sleeps on a condition variable; on an empty queue it
\* returns no-data at once, shut down or not, and on a non-empty queue it
\* takes the record at tail_ and advances tail_, shut down or not.
TryPopNeverWaits ==
    [][(pc[Consumer] = "try_pop" /\ pc'[Consumer] # "try_pop") =>
        /\ Consumer \notin cv_not_empty_' \cup cv_not_full_'
        /\ IF head_ = tail_
           THEN /\ pc'[Consumer] = "try_pop_ret"
                /\ ~ret'[Consumer]
                /\ tail_' = tail_
                /\ popped' = popped
           ELSE /\ pc'[Consumer] = "try_pop_notify"
                /\ item'[Consumer] = buffer_[tail_]
                /\ popped' = Append(popped, buffer_[tail_])
                /\ tail_' = (tail_ + 1) % Capacity]_vars

\* C8 witness: try_pop has returned no-data from an empty queue that is not
\* shut down.
TryPopWitness ==
    /\ pc[Consumer] = "try_pop_ret"
    /\ ~ret[Consumer]
    /\ head_ = tail_
    /\ ~shutdown_

\* C9: with no shutdown, a producer asleep in push once a record has been
\* removed gets to store its record, and a consumer asleep in pop once a
\* record has been stored gets to take one.
BlockingResolved ==
    /\ (pc[Producer] = "push_blocked" /\ (head_ + 1) % Capacity # tail_ /\ ~shutdown_)
          ~> (pc[Producer] = "push_notify" \/ shutdown_)
    /\ (pc[Consumer] = "pop_blocked" /\ head_ # tail_ /\ ~shutdown_)
          ~> (pc[Consumer] = "pop_notify" \/ shutdown_)

\* C9 witness: the producer is asleep in push on a queue the consumer has
\* just taken a record from.
BlockingResolvedWitness ==
    /\ pc[Producer] = "push_blocked"
    /\ pc[Consumer] \in {"pop_notify", "try_pop_notify"}
    /\ (head_ + 1) % Capacity # tail_
    /\ ~shutdown_

\* C10 as stated: when run() has returned because the race completed, the
\* queue has been shut down.
CompletionShutsDownQueue ==
    (pc[Producer] = "run_done" /\ run_exit = "complete") => shutdown_

\* C11: once the race has completed naturally and nobody has interrupted,
\* the consumer reaches the end of TelemetryUI::run or somebody interrupts.
CompletionEndsConsumer ==
    (run_exit = "complete" /\ sdCalls = 0) ~>
        (pc[Consumer] = "ui_done" \/ sdCalls > 0)

\* C12 as stated: when the consumer has left its loop, pop has reported
\* no-data and every record a push stored has been popped.
ConsumerEndsOnNoData ==
    pc[Consumer] \in {"ui_final", "ui_done"} =>
        /\ popFalse > 0
        /\ popped = accepted

\* C13 as stated: once the user interrupt has set the stop flag and its
\* shutdown() call on the queue has returned, RaceEngine::run and
\* TelemetryUI::run both come to their end.
ExternalStopEndsBoth ==
    (stop_flag_ /\ sdDone > 0) ~>
        (pc[Producer] = "run_done" /\ pc[Consumer] = "ui_done")

InTick == pc[Producer] \in {"run_update", "run_push", "push_ret"} \/ InPush

\* C14: the producer reads the stop flag at the top of its loop only.  A
\* loop-top check that finds the flag set ends run() with no tick and no
\* record after it, every tick it had started having pushed a record for
\* every entity; a tick that has started goes on to its update and to its
\* pushes whatever the flag is, and only a failed push cuts it short.
StopPolledAtLoopTop ==
    /\ [](run_exit = "stop" =>
            /\ pc[Producer] = "run_done"
            /\ Len(accepted) = tick_count_ * NUM_DRIVERS)
    /\ [][(pc[Producer] = "run_top" /\ pc'[Producer] # "run_top") =>
            IF stop_flag_
            THEN pc'[Producer] = "run_done" /\ run_exit' = "stop"
                 /\ tick_count_' = tick_count_ /\ accepted' = accepted
            ELSE pc'[Producer] = "run_update" /\ run_exit' = run_exit]_vars
    /\ [][run_exit = "stop" =>
            /\ tick_count_' = tick_count_
            /\ state_' = state_
            /\ accepted' = accepted]_vars
    /\ [][(InTick /\ pc'[Producer] # pc[Producer]) =>
            \/ InTick'
            \/ pc[Producer] = "push_ret" /\ ret[Producer]
                 /\ car_idx = NUM_DRIVERS - 1 /\ pc'[Producer] = "run_complete"
            \/ pc[Producer] = "push_ret" /\ ~ret[Producer]
                 /\ pc'[Producer] = "run_done"]_vars

\* C14 witness: the flag was set while a tick was under way, and that tick
\* has pushed its record for every entity.
StopPolledWitness ==
    /\ pc[Producer] = "run_complete"
    /\ run_exit = "running"
    /\ stop_flag_
    /\ tick_count_ >= 2
    /\ pushTrue = tick_count_ * NUM_DRIVERS

\* C15: the step by which run() returns on the stop signal leaves the queue
\* as it is, its shutdown flag included, and calls no shutdown(); the flag
\* shutdown_ is only ever stored by the interrupting thread's shutdown().
SignalExitLeavesQueue ==
    /\ [][(pc[Producer] = "run_top" /\ pc'[Producer] = "run_done") =>
            /\ shutdown_' = shutdown_
            /\ sdCalls' = sdCalls
            /\ <<buffer_, head_, tail_, cv_not_empty_, cv_not_full_>>'
                 = <<buffer_, head_, tail_, cv_not_empty_, cv_not_full_>>]_vars
    /\ [][shutdown_' # shutdown_ =>
            pc[External] = "shutdown_store" /\ pc'[External] # pc[External]]_vars

\* C15 witness: run() has returned on the stop signal and the queue is not
\* shut down.
SignalExitWitness ==
    /\ pc[Producer] = "run_done"
    /\ run_exit = "stop"
    /\ tick_count_ >= 1
    /\ ~shutdown_

\* C16: a push that returns false ends run() at once.  The queue is shut
\* down, the records accepted are those of the earlier ticks and of the
\* entities before the rejected one in this tick, and afterwards the
\* producer pushes nothing (no later entity, no retry) and runs no tick.
PushFailureStopsRun ==
    /\ [](run_exit = "push_failed" =>
            /\ pc[Producer] = "run_done"
            /\ shutdown_
            /\ car_idx < NUM_DRIVERS
            /\ Len(accepted) = (tick_count_ - 1) * NUM_DRIVERS + car_idx)
    /\ [][(pc[Producer] = "push_ret" /\ ~ret[Producer]
             /\ pc'[Producer] # "push_ret") =>
            /\ pc'[Producer] = "run_done"
            /\ run_exit' = "push_failed"
            /\ car_idx' = car_idx]_vars
    /\ [][run_exit = "push_failed" =>
            /\ pc'[Producer] = "run_done"
            /\ accepted' = accepted
            /\ head_' = head_
            /\ tick_count_' = tick_count_
            /\ state_' = state_]_vars

\* C16 witness: in a later tick the record of an entity that is not the last
\* was rejected and run() has returned.
PushFailureWitness ==
    /\ run_exit = "push_failed"
    /\ pc[Producer] = "run_done"
    /\ tick_count_ >= 2
    /\ car_idx < NUM_DRIVERS - 1

LeaderFinished ==
    \E i \in Drivers : /\ state_.cars[i].position = 1
                       /\ state_.cars[i].current_lap > total_laps_

\* C17: as long as nobody interrupts, run() ends only by completion, and it
\* does so at the end of the first tick that leaves the position-1 entity on
\* a lap beyond totalLaps: at every loop top before, the leader was not
\* beyond totalLaps and every tick so far had pushed all its records; at
\* completion the final tick's records are all pushed; afterwards no tick is
\* run and no record is pushed.
HaltsAtFirstCompleteTick ==
    /\ [](sdCalls = 0 =>
            /\ run_exit \in {"running", "complete"}
            /\ pc[Producer] \in {"run_top", "run_update"} =>
                 /\ ~LeaderFinished
                 /\ Len(accepted) = tick_count_ * NUM_DRIVERS
            /\ run_exit = "complete" =>
                 /\ LeaderFinished
                 /\ pc[Producer] = "run_done"
                 /\ Len(accepted) = tick_count_ * NUM_DRIVERS)
    /\ [][(sdCalls' = 0 /\ pc[Producer] = "run_complete"
             /\ pc'[Producer] # "run_complete") =>
            IF LeaderFinished
            THEN pc'[Producer] = "run_done" /\ run_exit' = "complete"
            ELSE pc'[Producer] = "run_top" /\ run_exit' = "running"]_vars
    /\ [][run_exit = "complete" =>
            /\ accepted' = accepted
            /\ tick_count_' = tick_count_
            /\ state_' = state_]_vars

\* C17 witness: a race of MaxLaps laps has completed with nobody
\* interrupting, after several ticks.
HaltsWitness ==
    /\ run_exit = "complete"
    /\ sdCalls = 0
    /\ total_laps_ = MaxLaps
    /\ tick_count_ >= 2 * MaxLaps
    /\ Len(accepted) = tick_count_ * NUM_DRIVERS

\* the tick (from 1) and the entity of the k-th record pushed, if every tick
\* pushes one record per entity in index order
TickOf(k) == ((k - 1) \div NUM_DRIVERS) + 1
EntityOf(k) == (k - 1) % NUM_DRIVERS

\* C18: the k-th record accepted is the record of entity (k-1) mod
\* NUM_DRIVERS in tick (k-1) div NUM_DRIVERS + 1; the records of the tick
\* under way are the frames of the state the tick's update and position
\* recomputation left, and records once accepted stay as they are; whenever
\* no tick is under way and no push has failed, the records accepted number
\* ticks x NUM_DRIVERS; each update adds exactly 1 to the tick count, and
\* only after the tick before has pushed all its records.
EveryTickPushesAll ==
    /\ [](/\ state_.tick_count = tick_count_
          /\ state_.race_time = tick_count_ * DT
          /\ Len(accepted) <= tick_count_ * NUM_DRIVERS
          /\ \A k \in 1..Len(accepted) :
                /\ accepted[k].driver_id = EntityOf(k)
                /\ accepted[k].timestamp_ms = TickOf(k) * DT
                /\ TickOf(k) = tick_count_ => accepted[k] = create_frame(EntityOf(k))
          /\ run_exit # "push_failed" /\ ~InTick =>
                Len(accepted) = tick_count_ * NUM_DRIVERS)
    /\ [][\/ accepted' = accepted
          \/ /\ pc[Producer] = "push_insert"
             /\ accepted' = Append(accepted, create_frame(car_idx))
             /\ car_idx = EntityOf(Len(accepted) + 1)]_vars
    /\ [][\/ tick_count_' = tick_count_ /\ state_' = state_
          \/ /\ tick_count_' = tick_count_ + 1
             /\ pc[Producer] = "run_update"
             /\ Len(accepted) = tick_count_ * NUM_DRIVERS]_vars

\* C18 witness: several ticks have run, none with a failed push, and the
\* last one has pushed its record for every entity.
EveryTickWitness ==
    /\ pc[Producer] = "run_complete"
    /\ tick_count_ >= 3
    /\ Len(accepted) = tick_count_ * NUM_DRIVERS
    /\ pushTrue = tick_count_ * NUM_DRIVERS

SlotFilled(i) == latest_frames_[i].driver_id # INVALID_DRIVER

\* C19: the records popped only grow at the end, and the last one popped
\* never carries an earlier time than a record of the same entity popped
\* before it, so the times popped for an entity never decrease; a filled
\* slot of the consumer's table holds a popped record of its own entity,
\* stays filled, and the time of the record in it never decreases.
TicksNeverGoBack ==
    /\ [][\/ popped' = popped
          \/ /\ Len(popped') = Len(popped) + 1
             /\ SubSeq(popped', 1, Len(popped)) = popped]_vars
    /\ [](\A j \in 1..(Len(popped) - 1) :
            popped[j].driver_id = popped[Len(popped)].driver_id =>
                popped[j].timestamp_ms <= popped[Len(popped)].timestamp_ms)
    /\ [](\A i \in Drivers : SlotFilled(i) =>
            /\ latest_frames_[i].driver_id = i
            /\ \E k \in 1..Len(popped) : popped[k] = latest_frames_[i])
    /\ [][\A i \in Drivers : SlotFilled(i) =>
            /\ SlotFilled(i)'
            /\ latest_frames_'[i].timestamp_ms >= latest_frames_[i].timestamp_ms]_vars

\* C19 witness: every slot has been overwritten by records of later ticks.
TicksWitness ==
    /\ \A i \in Drivers : SlotFilled(i) /\ latest_frames_[i].timestamp_ms >= 3 * DT
    /\ Len(popped) >= 3 * NUM_DRIVERS

\* The run of the engine on its own: the state and the stream after each
\* number of ticks, as a function of the seed alone.
RECURSIVE Replay(_, _)
Replay(seed, t) ==
    IF t = 0
    THEN [state |-> [cars |-> [i \in Drivers |-> initial_car(i)],
                     tick_count |-> 0, race_time |-> 0],
          rng |-> rng_seed(seed)]
    ELSE CHOOSE next \in
            UNION {UNION {{[state |-> [cars |-> [i \in Drivers |->
                                          [u.cars[i] EXCEPT !.position = p[i] % 256]],
                                       tick_count |-> t,
                                       race_time |-> prev.state.race_time + DT],
                            rng |-> u.rng] : p \in race_orders(u.cars)} :
                          u \in {physics_loop(prev.state.cars, prev.rng, 0)}} :
                   prev \in {Replay(seed, t - 1)}} : TRUE

ReferenceRun == [seed \in Seeds |-> [t \in 0..MaxTicks |-> Replay(seed, t)]]

FinishedIn(st, laps) ==
    \E i \in Drivers : st.cars[i].position = 1 /\ st.cars[i].current_lap > laps

\* the tick at which the reference run of a seed completes a race of laps
ReferenceLength(seed, laps) ==
    CHOOSE t \in 1..MaxTicks :
        /\ FinishedIn(ReferenceRun[seed][t].state, laps)
        /\ \A e \in 1..(t - 1) : ~FinishedIn(ReferenceRun[seed][e].state, laps)

\* the entities that draw from the stream in the tick being taken: on track
\* before it and after it
Draws == {i \in Drivers : ~state_.cars[i].in_pits /\ ~state_'.cars[i].in_pits}

RECURSIVE Drawn(_, _)
Drawn(r, n) == IF n = 0 THEN r ELSE Drawn(rng_next(r), n - 1)

IsTick == state_'.tick_count # state_.tick_count

\* C21: every car's tyre wear stays within [0, 1] (0..10000 in 1e-4), is 0
\* before the first tick, and over a tick it grows only for a car that is on
\* track before and after the tick, never beyond 1, and falls only to 0 and
\* only in the tick that completes a pit stay.
TireWearBounded ==
    /\ [](\A i \in Drivers :
            /\ state_.cars[i].tire_wear \in 0..10000
            /\ state_.tick_count = 0 => state_.cars[i].tire_wear = 0)
    /\ [][IsTick =>
            \A i \in Drivers :
                LET c == state_.cars[i]
                    d == state_'.cars[i]
                IN /\ d.tire_wear > c.tire_wear => ~c.in_pits /\ ~d.in_pits
                   /\ ~c.in_pits /\ ~d.in_pits
                        => \/ d.tire_wear = c.tire_wear
                                             + (wear_rate(i) * DT) \div 1000
                           \/ /\ d.tire_wear = 10000
                              /\ c.tire_wear + (wear_rate(i) * DT) \div 1000
                                    > 10000
                   /\ d.tire_wear < c.tire_wear
                        => c.in_pits /\ ~d.in_pits /\ d.tire_wear = 0
                   /\ c.in_pits /\ ~d.in_pits => d.tire_wear = 0]_vars

\* a car whose wear was reset by a pit stop is wearing its tyres again
\* while the other car's wear, reset one tick later, is still 0
TireWearWitness ==
    \E i, j \in Drivers :
        /\ state_.cars[i].pit_stops > 0
        /\ state_.cars[i].tire_wear \in 1..9999
        /\ state_.cars[j].pit_stops > 0
        /\ state_.cars[j].tire_wear = 0

\* C22: a car's pit-stop count goes up by one exactly in a tick that takes
\* the car from the pits back on track, which is the tick in which its pit
\* timer reaches 0 or less, and changes in no other step; in that tick the
\* car's tyre wear is reset to 0 and the car leaves the pits.
PitStopCountedOnExit ==
    [][/\ ~IsTick => state_'.cars = state_.cars
       /\ IsTick =>
            \A i \in Drivers :
                LET c == state_.cars[i]
                    d == state_'.cars[i]
                    out == c.in_pits /\ c.pit_timer - DT <= 0
                IN /\ out <=> c.in_pits /\ ~d.in_pits
                   /\ d.pit_stops = IF out THEN c.pit_stops + 1 ELSE c.pit_stops
                   /\ out => d.tire_wear = 0 /\ ~d.in_pits /\ d.pit_timer <= 0
      ]_vars

\* one car has completed its first pit stop while the other is still in the
\* pits with none completed
PitStopCountedWitness ==
    \E i, j \in Drivers :
        /\ state_.cars[i].pit_stops = 1
        /\ ~state_.cars[i].in_pits
        /\ state_.cars[i].tire_wear = 0
        /\ state_.cars[j].in_pits
        /\ state_.cars[j].pit_stops = 0

\* C23: a car goes from on track into the pits in a tick exactly when it is
\* on track at the start of the tick with tyre wear at or above its pit
\* threshold; the entry sets a positive pit timer; and a car that is in the
\* pits at the start of a tick is not entered again: its timer only runs
\* down, by one tick's time.
PitEntryAtThreshold ==
    [][IsTick =>
        \A i \in Drivers :
            LET c == state_.cars[i]
                d == state_'.cars[i]
                entry == ~c.in_pits /\ c.tire_wear >= c.pit_threshold
            IN /\ (~c.in_pits /\ d.in_pits) <=> entry
               /\ entry => d.pit_timer > 0
               /\ c.in_pits => d.pit_timer = c.pit_timer - DT
      ]_vars

\* a car has just entered the pits (its timer is the full duration of the
\* stop) while the other is still on track in its first stint
PitEntryWitness ==
    \E i, j \in Drivers :
        /\ state_.cars[i].in_pits
        /\ state_.cars[i].pit_timer
             = PIT_STOP_BASE_DURATION + (100 - reliability(i)) * 5
        /\ ~state_.cars[j].in_pits
        /\ state_.cars[j].pit_stops = 0

\* C24: every record accepted by the queue whose IN_PITS flag is set has
\* speed 0, the record of the pit-entry tick included.
PitRecordsHaveZeroSpeed ==
    \A k \in 1..Len(accepted) :
        accepted[k].flags = FLAG_IN_PITS => accepted[k].speed = 0

\* C25: after initialization and after every tick the cars' positions are
\* a permutation of 1..NUM_DRIVERS in which a car with strictly greater
\* distance has the smaller position; before the first tick the position
\* of car i is i + 1.
PositionsFollowDistance ==
    /\ {state_.cars[i].position : i \in Drivers} = 1..NUM_DRIVERS
    /\ \A a, b \in Drivers :
          state_.cars[a].distance > state_.cars[b].distance
            => state_.cars[a].position < state_.cars[b].position
    /\ state_.tick_count = 0 =>
          \A i \in Drivers : state_.cars[i].position = i + 1

\* a tick has changed the order: a car further down the grid is ahead of a
\* car further up, and holds the better position
PositionsWitness ==
    \E a, b \in Drivers :
        /\ a < b
        /\ state_.cars[b].distance > state_.cars[a].distance
        /\ state_.cars[b].position < state_.cars[a].position
        /\ state_.tick_count > 0

\* the car is in the pits at the start of the tick being taken, or enters
\* them in it
Pitting(i) ==
    \/ state_.cars[i].in_pits
    \/ state_.cars[i].tire_wear >= state_.cars[i].pit_threshold

\* C26: a tick that a car spends in the pits or uses to enter them leaves
\* the car's distance and lap as they were and its tyre wear too, except
\* for the reset to 0 in the tick that completes the pit stay; and the tick
\* takes as many values from the random stream as there are cars that are
\* neither in the pits nor entering them, so none for this car.
PitTickLeavesCarInPlace ==
    [][IsTick =>
        /\ \A i \in Drivers :
              LET c == state_.cars[i]
                  d == state_'.cars[i]
              IN Pitting(i) =>
                    /\ d.distance = c.distance
                    /\ d.current_lap = c.current_lap
                    /\ d.tire_wear = IF c.in_pits /\ ~d.in_pits
                                     THEN 0 ELSE c.tire_wear
        /\ rng_' = Drawn(rng_, Cardinality({i \in Drivers : ~Pitting(i)}))
      ]_vars

\* one car has spent a tick in the pits and stays there, the other has used
\* the same tick to enter them
PitTickWitness ==
    \E i, j \in Drivers :
        /\ state_.cars[i].in_pits
        /\ state_.cars[i].pit_timer
             = PIT_STOP_BASE_DURATION + (100 - reliability(i)) * 5 - DT
        /\ state_.cars[j].in_pits
        /\ state_.cars[j].pit_timer
             = PIT_STOP_BASE_DURATION + (100 - reliability(j)) * 5
        /\ state_.cars[j].speed > 0

\* C27: the race order is that of a stable sort by distance, descending:
\* whenever the order is recomputed, the position of a car is 1 + the number
\* of cars with greater distance or with equal distance and lower index, so
\* that of two cars at equal distance the one with the lower index has the
\* better position.
StableRaceOrder ==
    [][\A a \in Drivers :
          state_'.cars[a].position
            = 1 + Cardinality({b \in Drivers :
                    \/ state_'.cars[b].distance > state_'.cars[a].distance
                    \/ /\ state_'.cars[b].distance = state_'.cars[a].distance
                       /\ b < a})]_vars

\* C28: every record accepted in the tick under way reports the pit data of
\* its car as the tick left them: the record's pit_stops is the car's count
\* of completed pit stops, and its pit_timer is the car's remaining pit time
\* when the car is in the pits and 0 when it is not.
RecordsReportPitData ==
    \A k \in 1..Len(accepted) :
        TickOf(k) = tick_count_ =>
            LET car == state_.cars[EntityOf(k)]
            IN /\ accepted[k].pit_stops = car.pit_stops
               /\ accepted[k].pit_timer = IF car.in_pits THEN car.pit_timer ELSE 0

\* the consumer has taken a record from the queue and not yet stored it
PopInHand ==
    \/ pc[Consumer] = "pop_notify"
    \/ pc[Consumer] = "pop_ret" /\ ret[Consumer]

\* the records the consumer has popped and handled
Handled == Len(popped) - (IF PopInHand THEN 1 ELSE 0)

\* C29: the consumer's table starts with the sentinel id 255 in every slot;
\* the table changes only when the consumer handles a popped record, and
\* then exactly the slot of the record's own entity is overwritten with it,
\* whether or not the record triggers a redraw; so each slot holds the last
\* record handled for its entity, or the sentinel if there was none.
SlotsHoldLastRecord ==
    /\ [](\A i \in Drivers :
            LET ks == {k \in 1..Handled : popped[k].driver_id = i}
            IN IF ks = {}
               THEN latest_frames_[i].driver_id = INVALID_DRIVER
               ELSE latest_frames_[i]
                      = popped[CHOOSE k \in ks : \A j \in ks : j <= k])
    /\ [][\/ latest_frames_' = latest_frames_
          \/ /\ pc[Consumer] = "pop_ret" /\ ret[Consumer]
             /\ latest_frames_' = [latest_frames_ EXCEPT
                                     ![item[Consumer].driver_id] = item[Consumer]]
             /\ \A i \in Drivers \ {item[Consumer].driver_id} :
                   latest_frames_'[i] = latest_frames_[i]]_vars

\* no redraw has happened yet, every slot has been written, and the slot of
\* entity 0 has been overwritten with a record of a later tick
SlotsWitness ==
    /\ renders.periodic = 0
    /\ renders.final = 0
    /\ \A i \in Drivers : SlotFilled(i)
    /\ latest_frames_[0].timestamp_ms >= 2 * DT
    /\ latest_frames_[NUM_DRIVERS - 1].timestamp_ms < latest_frames_[0].timestamp_ms

\* C30: the consumer's frame counter is the number of records handled for
\* entity 0 and never decreases; the periodic renders number the counter
\* divided by RENDER_EVERY, rounded down; and a periodic render happens only
\* in the handling of a record of entity 0 that brings the counter to a
\* multiple of RENDER_EVERY, never in that of a record of another entity.
RenderEveryTenth ==
    /\ [](/\ frame_counter_
               = Cardinality({k \in 1..Handled : popped[k].driver_id = 0})
          /\ renders.periodic = frame_counter_ \div RENDER_EVERY)
    /\ [][/\ frame_counter_' >= frame_counter_
          /\ renders'.periodic # renders.periodic =>
                /\ pc[Consumer] = "pop_ret" /\ ret[Consumer]
                /\ item[Consumer].driver_id = 0
                /\ frame_counter_' = frame_counter_ + 1
                /\ frame_counter_' % RENDER_EVERY = 0
                /\ renders'.periodic = renders.periodic + 1
          /\ frame_counter_' # frame_counter_ =>
                /\ pc[Consumer] = "pop_ret" /\ ret[Consumer]
                /\ item[Consumer].driver_id = 0]_vars

\* the tenth record of entity 0 has been rendered, and records of both
\* entities handled after it have not triggered another render
RenderWitness ==
    /\ renders.periodic = 1
    /\ frame_counter_ > RENDER_EVERY
    /\ Handled > 2 * RENDER_EVERY + 1
    /\ ~PopInHand

\* ------------------------------------------------------------------------
\* The final render, laps and distance, the shared race state
\* ------------------------------------------------------------------------

\* the last record handled for entity i, if any
LastHandled(i) ==
    LET ks == {k \in 1..Handled : popped[k].driver_id = i}
    IN IF ks = {} THEN [driver_id |-> INVALID_DRIVER]
       ELSE popped[CHOOSE k \in ks : \A j \in ks : j <= k]

\* C31: the consumer leaves its loop only from the loop top with the stop
\* flag set or from a pop that reported no data, and either way it renders
\* exactly one final snapshot before it terminates: a terminated consumer
\* has rendered it once and a running one not at all; the final render
\* comes after the last slot update, shows the table holding the last
\* record handled for each entity, with no popped record left unhandled,
\* and nothing is stored or rendered after it.
FinalRenderOnExit ==
    /\ [](/\ renders.final = (IF pc[Consumer] = "ui_done" THEN 1 ELSE 0)
          /\ pc[Consumer] = "ui_done" =>
                /\ renders.shown = latest_frames_
                /\ ~PopInHand
                /\ \A i \in Drivers : renders.shown[i] = LastHandled(i))
    /\ [][/\ pc'[Consumer] = "ui_final" /\ pc[Consumer] # "ui_final" =>
                \/ pc[Consumer] = "ui_top" /\ stop_flag_
                \/ pc[Consumer] = "pop_ret" /\ ~ret[Consumer]
          /\ pc[Consumer] = "ui_final" /\ pc'[Consumer] # "ui_final" =>
                /\ pc'[Consumer] = "ui_done"
                /\ renders'.final = renders.final + 1
                /\ renders'.periodic = renders.periodic
                /\ renders'.shown = latest_frames_
                /\ latest_frames_' = latest_frames_
          /\ pc[Consumer] = "ui_done" =>
                /\ pc'[Consumer] = "ui_done"
                /\ renders' = renders
                /\ latest_frames_' = latest_frames_]_vars

\* the consumer has terminated on the stop flag, pop never having reported
\* no data, with records still in the queue; every slot was written and the
\* final render came after periodic renders
FinalRenderWitness ==
    /\ pc[Consumer] = "ui_done"
    /\ popFalse = 0
    /\ Len(accepted) > Len(popped)
    /\ \A i \in Drivers : SlotFilled(i)
    /\ renders.periodic >= 1

\* the consumer has terminated on a pop that reported no data
FinalRenderNoDataWitness ==
    /\ pc[Consumer] = "ui_done"
    /\ popFalse = 1
    /\ \A i \in Drivers : SlotFilled(i)

\* C32: after every tick each car's distance is below TRACK_LENGTH times its
\* lap, so the lap counter is never behind the distance travelled; over a
\* tick a car's distance never decreases and its lap stays or goes up by
\* one, and goes up only if the car moved in that tick; no other step
\* changes either.
LapKeepsUpWithDistance ==
    /\ [](\A i \in Drivers :
            state_.cars[i].distance < TRACK_LENGTH * state_.cars[i].current_lap)
    /\ [][\A i \in Drivers :
            LET c == state_.cars[i]
                d == state_'.cars[i]
            IN /\ d.distance >= c.distance
               /\ d.current_lap \in {c.current_lap, c.current_lap + 1}
               /\ d.current_lap # c.current_lap =>
                     /\ IsTick
                     /\ d.distance > c.distance
                     /\ d.distance >= TRACK_LENGTH * c.current_lap
               /\ d.distance # c.distance => IsTick]_vars

\* a car has completed two laps, one of them after a pit stop
LapWitness ==
    \E i \in Drivers :
        /\ state_.cars[i].current_lap = 3
        /\ state_.cars[i].distance >= 2 * TRACK_LENGTH
        /\ state_.cars[i].pit_stops >= 1

\* C33: every return of read_state yields the latest state written by
\* write_state (the zero state if none was written), also when it returns
\* on the stop signal with a written state still unread; and the reader is
\* asleep in read_state only while there is neither unread data nor a stop
\* signal, or while the notification of the write or of the stop that ended
\* that is still to come.
ReadYieldsLatestWritten ==
    /\ \A k \in 1..Len(returned) : returned[k].value = returned[k].latest
    /\ pc[Consumer] = "read_wait" /\ (has_new_data_ \/ should_stop_) =>
          \/ pc[Producer] = "write_notify"
          \/ pc[External] = "stop_notify"

\* what read_state does return: the latest state written, unless it returns
\* on the stop signal with a written state unread, and then an earlier one
ReadYieldsLatestUnlessStopped ==
    /\ \A k \in 1..Len(returned) :
          IF returned[k].stop /\ returned[k].unread
          THEN returned[k].value < returned[k].latest
          ELSE returned[k].value = returned[k].latest
    /\ pc[Consumer] = "read_wait" /\ (has_new_data_ \/ should_stop_) =>
          \/ pc[Producer] = "write_notify"
          \/ pc[External] = "stop_notify"

====
